---- MODULE Spec2Model ----
(***************************************************************************)
(* Notification dispatch of the issue tracker: createIssue, updateIssue    *)
(* and createComment write their primary record and then create            *)
(* notifications through utils/notifications.ts.                           *)
(*                                                                         *)
(* Spec          the three handlers, each request in one step              *)
(* SpecDisturbed the same handlers while a store operation of the dispatch *)
(*               fails or the seed script deletes the users                *)
(* SpecQuery     the read side: getNotifications, markNotificationAsRead,  *)
(*               markAllNotificationsAsRead over timestamped notifications *)
(* SpecInterleaved the read side and the dispatch of createIssue with      *)
(*               every store operation as a step, two requests in flight   *)
(* SpecUpdates   updateIssue with findById, save and each insert as steps, *)
(*               two requests in flight                                    *)
(* SpecComments  createComment next to updateComment, deleteComment and    *)
(*               getCommentsByIssue                                        *)
(***************************************************************************)
EXTENDS Integers, Sequences, FiniteSets, TLC

\* ------------------------------------------------------------------ bounds
\* Number of requests handled in one behaviour.
MaxOps == 2
\* Longest mentions list of a createComment request.
MaxMentions == 2
\* Issues created in one behaviour of the read side.
MaxIssues == 1
\* Requests handled at the same time, and requests of one behaviour, where
\* the awaits of the handlers are steps.
MaxInFlight == 2
MaxRequests == 3

\* ------------------------------------------------------- values and inputs
\* The documents of the User collection, in insertion order. The seed script
\* inserts four users; the model keeps three, enough for actor, creator and
\* assignee to be three different users.
SeedUsers == <<"u1", "u2", "u3">>
UserIds == {SeedUsers[i] : i \in 1..Len(SeedUsers)}
\* A well-formed user id that names no user.
Ghost == "u0"
\* A string that is no valid ObjectId.
Malformed == "not-an-id"
\* A key that is not part of a payload (undefined).
Absent == "undefined"
\* null: no assignee; a reference that populate could not resolve.
Null == "null"

Status == {"Open", "In Progress", "Resolved"}
Priority == {"Low", "Medium", "High"}

\* Issue titles and descriptions a request may carry (already trimmed).
Titles == {"t1"}
Descriptions == {"d1"}

\* The places of requests being handled; a free place holds Idle.
Slots == 1..MaxInFlight
Idle == [op |-> "idle"]

VARIABLES
  users,          \* User collection: sequence of user ids
  issues,         \* Issue collection: sequence of documents, _id = index
  comments,       \* Comment collection: sequence of documents
  notifications,  \* Notification collection, in insertion order
  opCount,        \* requests handled so far
  inflight,       \* the requests being handled: what each handler holds
  last            \* the request handled last, its outcome, the store before it

vars ==
  <<users, issues, comments, notifications, opCount, inflight, last>>

\* ---------------------------------------------------------------- helpers
\* utils/validation.ts: a user id is valid when it has ObjectId form.
isValidObjectId(id) == id \notin {Malformed, Absent, Null, ""}

\* issue ids are the positive integers; 0 stands for a malformed id.
isValidIssueId(id) == id >= 1

\* toObjectId of issue.service.ts: null for a missing id, "THROW" for a
\* malformed one.
toObjectId(id) ==
  IF id \in {Absent, Null, "", "unassigned"} THEN Null
  ELSE IF ~isValidObjectId(id) THEN "THROW"
  ELSE id

\* User.findById
UserExists(id) == \E i \in 1..Len(users) : users[i] = id

\* populate(): the referenced user document, or null when there is none.
Populate(ref) == IF ref # Null /\ UserExists(ref) THEN ref ELSE Null

\* The name field of a user document.
UserName(id) == [name |-> id]

Link(issueId) == <<"/issues/", issueId>>

\* utils/notifications.ts createNotification: one insert, skipped when the
\* recipient is no user.
createNotification(store, p) ==
  IF ~UserExists(p.recipientId) THEN store
  ELSE Append(store,
         [recipientId |-> p.recipientId, title |-> p.title,
          description |-> p.description, type |-> p.type,
          read |-> FALSE, link |-> p.link])

\* for (const recipientId of recipients) await createNotification({...})
RECURSIVE NotifyEach(_, _, _)
NotifyEach(store, recipients, p) ==
  IF recipients = <<>> THEN store
  ELSE NotifyEach(
         createNotification(store, [recipientId |-> Head(recipients)] @@ p),
         Tail(recipients), p)

\* Mutation of createNotificationsForUsers: the documents are inserted as
\* read.
createNotificationsForUsers_InsertedRead(store, recipientIds, p) ==
  store \o [i \in 1..Len(recipientIds) |->
             [recipientId |-> recipientIds[i], title |-> p.title,
              description |-> p.description, type |-> p.type,
              read |-> TRUE, link |-> p.link]]

\* utils/notifications.ts createNotificationsForUsers: insertMany, without a
\* lookup of the recipients.
createNotificationsForUsers(store, recipientIds, p) ==
  store \o [i \in 1..Len(recipientIds) |->
             [recipientId |-> recipientIds[i], title |-> p.title,
              description |-> p.description, type |-> p.type,
              read |-> FALSE, link |-> p.link]]

\* Mutation of createNotificationForAllUsers: the sender is not filtered out.
createNotificationForAllUsers_WithSender(store, senderId, p) ==
  createNotificationsForUsers(store, users, p)

\* utils/notifications.ts createNotificationForAllUsers: every user but the
\* sender, in one insertMany.
createNotificationForAllUsers(store, senderId, p) ==
  LET recipientIds == SelectSeq(users, LAMBDA u : u # senderId)
  IN IF Len(recipientIds) > 0
       THEN createNotificationsForUsers(store, recipientIds, p)
       ELSE store

NoIssue ==
  [title |-> "", description |-> "", priority |-> "", status |-> "",
   assignee |-> Null, createdBy |-> Null]

\* What a request leaves in `last`.
Outcome(op, actor, id, dto, old, result) ==
  [op |-> op, actor |-> actor, id |-> id, dto |-> dto, old |-> old,
   result |-> result, n0 |-> Len(notifications)]

\* -------------------------------------------------------------- createIssue
\* Mutation of IssueAssignedBranch: an assignee who is the creator is skipped.
IssueAssignedBranch_NotCreator(store, assigneeId, createdById, p) ==
  IF assigneeId # Null /\ assigneeId # createdById /\ UserExists(assigneeId)
    THEN createNotification(store, [recipientId |-> assigneeId] @@ p)
    ELSE store

\* Mutation of IssueAssignedBranch: the issue_assigned notification is
\* written before the broadcast of the same request.
IssueAssignedBranch_BeforeBroadcast(store, assigneeId, createdById, p) ==
  IF assigneeId # Null /\ UserExists(assigneeId)
    THEN createNotification(notifications, [recipientId |-> assigneeId] @@ p)
           \o SubSeq(store, Len(notifications) + 1, Len(store))
    ELSE store

\* "If assignee is set, create notification for assignee": the assignee is
\* looked up again and notified when found, the creator included.
IssueAssignedBranch(store, assigneeId, createdById, p) ==
  IF assigneeId # Null /\ UserExists(assigneeId)
    THEN createNotification(store, [recipientId |-> assigneeId] @@ p)
    ELSE store

\* issue.service.ts createIssue: the stores after the call and its result.
createIssue(createDto) ==
  LET assigneeId  == toObjectId(createDto.assignee)
      createdById == toObjectId(createDto.createdBy)
      unchanged(r) == [issues |-> issues, notifications |-> notifications,
                       result |-> r]
  IN
  IF assigneeId = "THROW" \/ createdById = "THROW"
    THEN unchanged("Invalid user ID format")
  ELSE IF ~UserExists(createdById)
    THEN unchanged("Creator user not found")
  ELSE IF assigneeId # Null /\ ~UserExists(assigneeId)
    THEN unchanged("Assignee user not found")
  ELSE
    LET issue == [title |-> createDto.title,
                  description |-> createDto.description,
                  priority |-> createDto.priority,
                  status |-> createDto.status,
                  assignee |-> assigneeId, createdBy |-> createdById]
        saved   == Append(issues, issue)
        issueId == Len(saved)
        creatorName == UserName(createdById)
        n1 == createNotificationForAllUsers(notifications, createdById,
                [title |-> "Issue Created",
                 description |-> [text |-> "has created a new issue",
                                  by |-> creatorName,
                                  issue |-> createDto.title,
                                  from |-> "", to |-> ""],
                 type |-> "issue_created", link |-> Link(issueId)])
        n2 == IssueAssignedBranch(n1, assigneeId, createdById,
                [title |-> "Issue Assigned",
                 description |-> [text |-> "has assigned you to issue",
                                  by |-> creatorName,
                                  issue |-> createDto.title,
                                  from |-> "", to |-> ""],
                 type |-> "issue_assigned", link |-> Link(issueId)])
    IN [issues |-> saved, notifications |-> n2, result |-> "ok"]

\* createIssueController: the request body with its defaults, createdBy taken
\* from the authenticated user.
CreateIssue ==
  \E actor \in UserIds \cup {Ghost}, title \in Titles,
     description \in Descriptions, priority \in Priority \cup {Absent},
     status \in Status \cup {Absent},
     assignee \in UserIds \cup {Absent, Ghost, Malformed} :
    LET createDto == [title |-> title, description |-> description,
                      priority |-> IF priority = Absent THEN "Medium"
                                   ELSE priority,
                      status |-> IF status = Absent THEN "Open" ELSE status,
                      assignee |-> IF assignee = Absent THEN Null
                                   ELSE assignee,
                      createdBy |-> actor]
        r == createIssue(createDto)
    IN /\ opCount < MaxOps
       /\ issues' = r.issues
       /\ notifications' = r.notifications
       /\ opCount' = opCount + 1
       /\ last' = Outcome("createIssue", actor, Len(issues) + 1, createDto,
                          NoIssue, r.result)
       /\ UNCHANGED <<inflight, users, comments>>

\* -------------------------------------------------------------- updateIssue
\* The issue document as updateIssue holds it after findById(...).populate:
\* the references resolved to user documents, or null.
Loaded(issue) ==
  [issue EXCEPT !.assignee = Populate(issue.assignee),
                !.createdBy = Populate(issue.createdBy)]

\* let updaterName = "Someone"
Someone == [name |-> "Someone"]

\* Who the notifications name as the updater.
UpdaterName(issue, userId) ==
  IF userId # Absent
    THEN IF UserExists(userId) THEN UserName(userId) ELSE Someone
  ELSE IF issue.createdBy # Null THEN UserName(issue.createdBy)
  ELSE Someone

\* "Update fields if provided": the document after the assignments, with
\* assignee already converted by toObjectId.
ApplyUpdate(issue, updateDto, assigneeId) ==
  [title |-> IF updateDto.title # Absent THEN updateDto.title
             ELSE issue.title,
   description |-> IF updateDto.description # Absent
                     THEN updateDto.description ELSE issue.description,
   priority |-> IF updateDto.priority # Absent THEN updateDto.priority
                ELSE issue.priority,
   status |-> IF updateDto.status # Absent THEN updateDto.status
              ELSE issue.status,
   assignee |-> IF updateDto.assignee # Absent THEN assigneeId
                ELSE issue.assignee,
   createdBy |-> issue.createdBy]

\* Mutation of UpdatedIssue: the recipients are read from the document as it
\* was loaded, before the assignments.
UpdatedIssue_Stale(loaded, updateDto, assigneeId) == loaded

\* const updatedIssue = await issue.save(): the loaded document with the
\* assignments applied; paths that were populated and not assigned stay
\* populated.
UpdatedIssue(loaded, updateDto, assigneeId) ==
  ApplyUpdate(loaded, updateDto, assigneeId)

\* Mutation of StatusChanged: the key alone decides.
StatusChanged_KeyOnly(updateDto, oldStatus) == updateDto.status # Absent

\* Mutation of GeneralUpdate: the status key is not looked at.
GeneralUpdate_IgnoresStatus(updateDto) ==
  /\ updateDto.title # Absent \/ updateDto.description # Absent
  /\ updateDto.priority = Absent
  /\ updateDto.assignee = Absent

\* Conditions of the four notification branches.
StatusChanged(updateDto, oldStatus) ==
  updateDto.status # Absent /\ oldStatus # updateDto.status

PriorityChanged(updateDto, oldPriority) ==
  updateDto.priority # Absent /\ oldPriority # updateDto.priority

AssigneeChanged(updateDto, oldAssignee, newAssigneeId) ==
  updateDto.assignee # Absent /\ oldAssignee # newAssigneeId

GeneralUpdate(updateDto) ==
  /\ updateDto.title # Absent \/ updateDto.description # Absent
  /\ updateDto.status = Absent
  /\ updateDto.priority = Absent
  /\ updateDto.assignee = Absent

\* Mutation of StatusRecipients: the creator is left out.
StatusRecipients_OnlyAssignee(updatedIssue) ==
  IF updatedIssue.assignee # Null THEN <<updatedIssue.assignee>> ELSE <<>>

\* Mutation of StatusRecipients: the creator is added without comparing it
\* with the assignee.
StatusRecipients_NoDedup(updatedIssue) ==
  (IF updatedIssue.assignee # Null THEN <<updatedIssue.assignee>> ELSE <<>>)
  \o (IF updatedIssue.createdBy # Null THEN <<updatedIssue.createdBy>>
      ELSE <<>>)

\* Recipients of the status branch: the assignee, then the creator when it
\* is another user.
StatusRecipients(updatedIssue) ==
  (IF updatedIssue.assignee # Null THEN <<updatedIssue.assignee>> ELSE <<>>)
  \o (IF /\ updatedIssue.createdBy # Null
         /\ updatedIssue.createdBy #
              (IF updatedIssue.assignee # Null THEN updatedIssue.assignee
               ELSE "")
        THEN <<updatedIssue.createdBy>> ELSE <<>>)

\* Mutation of PriorityRecipients: the creator is left out.
PriorityRecipients_OnlyAssignee(updatedIssue) ==
  IF updatedIssue.assignee # Null THEN <<updatedIssue.assignee>> ELSE <<>>

\* Recipients of the priority branch.
PriorityRecipients(updatedIssue) ==
  (IF updatedIssue.assignee # Null THEN <<updatedIssue.assignee>> ELSE <<>>)
  \o (IF /\ updatedIssue.createdBy # Null
         /\ updatedIssue.createdBy #
              (IF updatedIssue.assignee # Null THEN updatedIssue.assignee
               ELSE "")
        THEN <<updatedIssue.createdBy>> ELSE <<>>)

\* Recipients of the general update branch.
GeneralRecipients(updatedIssue) ==
  (IF updatedIssue.assignee # Null THEN <<updatedIssue.assignee>> ELSE <<>>)
  \o (IF /\ updatedIssue.createdBy # Null
         /\ updatedIssue.createdBy #
              (IF updatedIssue.assignee # Null THEN updatedIssue.assignee
               ELSE "")
        THEN <<updatedIssue.createdBy>> ELSE <<>>)

\* Notification for status change.
StatusBranch(store, updateDto, old, updatedIssue, by, issueId) ==
  IF StatusChanged(updateDto, old.status)
    THEN NotifyEach(store, StatusRecipients(updatedIssue),
           [title |-> "Status Changed",
            description |-> [text |-> "has changed the status of issue",
                             by |-> by, issue |-> old.title,
                             from |-> old.status, to |-> updateDto.status],
            type |-> "status_changed", link |-> Link(issueId)])
    ELSE store

\* Notification for priority change.
PriorityBranch(store, updateDto, old, updatedIssue, by, issueId) ==
  IF PriorityChanged(updateDto, old.priority)
    THEN NotifyEach(store, PriorityRecipients(updatedIssue),
           [title |-> "Priority Changed",
            description |-> [text |-> "has changed the priority of issue",
                             by |-> by, issue |-> old.title,
                             from |-> old.priority,
                             to |-> updateDto.priority],
            type |-> "priority_changed", link |-> Link(issueId)])
    ELSE store

\* Mutation of AssigneeBranch: a reassignment also sends the unassignment
\* notice to the previous assignee.
AssigneeBranch_AlsoPrevious(store, updateDto, old, updatedIssue, by, issueId) ==
  LET oldAssignee   == old.assignee
      newAssigneeId == updatedIssue.assignee
      assigned ==
        IF newAssigneeId # Null /\ newAssigneeId # oldAssignee
          THEN createNotification(store,
                 [recipientId |-> newAssigneeId, title |-> "Issue Assigned",
                  description |-> [text |-> "has assigned you to issue",
                                   by |-> by, issue |-> old.title,
                                   from |-> "", to |-> ""],
                  type |-> "issue_assigned", link |-> Link(issueId)])
          ELSE store
  IN IF AssigneeChanged(updateDto, oldAssignee, newAssigneeId)
       THEN IF oldAssignee # Null
              THEN createNotification(assigned,
                     [recipientId |-> oldAssignee,
                      title |-> "Issue Unassigned",
                      description |-> [text |-> "has unassigned you from issue",
                                       by |-> by, issue |-> old.title,
                                       from |-> "", to |-> ""],
                      type |-> "issue_updated", link |-> Link(issueId)])
              ELSE assigned
       ELSE store

\* Mutation of AssigneeBranch: clearing the assignee sends nothing.
AssigneeBranch_NoUnassign(store, updateDto, old, updatedIssue, by, issueId) ==
  LET oldAssignee   == old.assignee
      newAssigneeId == updatedIssue.assignee
  IN IF /\ AssigneeChanged(updateDto, oldAssignee, newAssigneeId)
        /\ newAssigneeId # Null /\ newAssigneeId # oldAssignee
       THEN createNotification(store,
              [recipientId |-> newAssigneeId, title |-> "Issue Assigned",
               description |-> [text |-> "has assigned you to issue",
                                by |-> by, issue |-> old.title,
                                from |-> "", to |-> ""],
               type |-> "issue_assigned", link |-> Link(issueId)])
       ELSE store

\* Notification for assignment change.
AssigneeBranch(store, updateDto, old, updatedIssue, by, issueId) ==
  LET oldAssignee   == old.assignee
      newAssigneeId == updatedIssue.assignee
      assigned ==
        IF newAssigneeId # Null /\ newAssigneeId # oldAssignee
          THEN createNotification(store,
                 [recipientId |-> newAssigneeId, title |-> "Issue Assigned",
                  description |-> [text |-> "has assigned you to issue",
                                   by |-> by, issue |-> old.title,
                                   from |-> "", to |-> ""],
                  type |-> "issue_assigned", link |-> Link(issueId)])
          ELSE store
  IN IF AssigneeChanged(updateDto, oldAssignee, newAssigneeId)
       THEN IF oldAssignee # Null /\ newAssigneeId = Null
              THEN createNotification(assigned,
                     [recipientId |-> oldAssignee,
                      title |-> "Issue Unassigned",
                      description |-> [text |-> "has unassigned you from issue",
                                       by |-> by, issue |-> old.title,
                                       from |-> "", to |-> ""],
                      type |-> "issue_updated", link |-> Link(issueId)])
              ELSE assigned
       ELSE store

\* General update notification.
GeneralBranch(store, updateDto, old, updatedIssue, by, issueId) ==
  IF GeneralUpdate(updateDto)
    THEN NotifyEach(store, GeneralRecipients(updatedIssue),
           [title |-> "Issue Updated",
            description |-> [text |-> "has updated issue",
                             by |-> by, issue |-> old.title,
                             from |-> "", to |-> ""],
            type |-> "issue_updated", link |-> Link(issueId)])
    ELSE store

\* issue.service.ts updateIssue: the stores after the call and its result.
updateIssue(id, updateDto, userId) ==
  LET unchanged(r) == [issues |-> issues, notifications |-> notifications,
                       result |-> r]
  IN
  IF ~isValidIssueId(id) THEN unchanged("Invalid issue ID format")
  ELSE IF id \notin 1..Len(issues) THEN unchanged("Issue not found")
  ELSE
    LET old == Loaded(issues[id])
        by  == UpdaterName(old, userId)
        assigneeId == toObjectId(updateDto.assignee)
    IN
    IF updateDto.assignee # Absent /\ assigneeId = "THROW"
      THEN unchanged("Invalid user ID format")
    ELSE IF /\ updateDto.assignee # Absent
            /\ assigneeId # Null /\ ~UserExists(assigneeId)
      THEN unchanged("Assignee user not found")
    ELSE
      LET stored == ApplyUpdate(issues[id], updateDto, assigneeId)
          updatedIssue == UpdatedIssue(old, updateDto, assigneeId)
          n1 == StatusBranch(notifications, updateDto, old, updatedIssue,
                             by, id)
          n2 == PriorityBranch(n1, updateDto, old, updatedIssue, by, id)
          n3 == AssigneeBranch(n2, updateDto, old, updatedIssue, by, id)
          n4 == GeneralBranch(n3, updateDto, old, updatedIssue, by, id)
      IN [issues |-> [issues EXCEPT ![id] = stored],
          notifications |-> n4, result |-> "ok"]

\* The update payloads a request body yields: every combination of keys
\* with an assignee that is absent, null or a user, and the payloads with an
\* assignee that is no user next to a status.
UpdateDtos ==
  [title : Titles \cup {Absent}, description : Descriptions \cup {Absent},
   priority : Priority \cup {Absent}, status : Status \cup {Absent},
   assignee : UserIds \cup {Absent, Null}]
  \cup
  [title : {Absent}, description : {Absent}, priority : {Absent},
   status : Status \cup {Absent}, assignee : {Ghost, Malformed}]

EmptyDto ==
  [title |-> Absent, description |-> Absent, priority |-> Absent,
   status |-> Absent, assignee |-> Absent]

\* updateIssueController: builds the payload from the keys of the body and
\* calls updateIssue(id, updateDto), without the authenticated user.
updateIssueController(id, updateDto) ==
  IF ~isValidIssueId(id)
    THEN [issues |-> issues, notifications |-> notifications,
          result |-> "Invalid issue ID format"]
  ELSE IF updateDto = EmptyDto
    THEN [issues |-> issues, notifications |-> notifications,
          result |-> "At least one field must be provided for update"]
  ELSE updateIssue(id, updateDto, Absent)

UpdateIssue ==
  \E id \in 0..(Len(issues) + 1) :
    \E updateDto \in IF id \in 1..Len(issues) THEN UpdateDtos
                     ELSE {d \in UpdateDtos : d.assignee = Malformed} :
      /\ opCount < MaxOps
      /\ LET r == updateIssueController(id, updateDto)
         IN /\ issues' = r.issues
            /\ notifications' = r.notifications
            /\ \E actor \in UserIds :
                 last' = Outcome("updateIssue", actor, id, updateDto,
                           IF id \in 1..Len(issues) THEN Loaded(issues[id])
                           ELSE NoIssue, r.result)
      /\ opCount' = opCount + 1
      /\ UNCHANGED <<inflight, users, comments>>

\* ------------------------------------------------------------ createComment
Contents == {"c1", ""}

RECURSIVE SeqsUpTo(_, _)
SeqsUpTo(S, n) ==
  IF n = 0 THEN {<<>>}
  ELSE LET shorter == SeqsUpTo(S, n - 1)
       IN shorter \cup {Append(q, x) : q \in shorter, x \in S}

\* The mentions lists of a request: lists of users, and lists naming an id
\* that is no user.
MentionLists ==
  SeqsUpTo(UserIds, MaxMentions) \cup {<<Ghost>>, <<Malformed>>}

\* "Validate and process mentions": the first failure of the loop, or "ok".
RECURSIVE ValidateMentions(_)
ValidateMentions(mentions) ==
  IF mentions = <<>> THEN "ok"
  ELSE IF ~isValidObjectId(Head(mentions))
    THEN "Invalid mention user ID format"
  ELSE IF ~UserExists(Head(mentions)) THEN "Mentioned user not found"
  ELSE ValidateMentions(Tail(mentions))

\* "Notify mentioned users": one pass over mentionIds, in order.
RECURSIVE MentionBranch(_, _, _, _)
MentionBranch(store, mentionIds, commenterId, p) ==
  IF mentionIds = <<>> THEN store
  ELSE LET mentionId == Head(mentionIds)
           next == IF mentionId # commenterId /\ UserExists(mentionId)
                     THEN createNotification(store,
                            [recipientId |-> mentionId] @@ p)
                     ELSE store
       IN MentionBranch(next, Tail(mentionIds), commenterId, p)

\* Mutation of isAlreadyMentioned: nobody counts as mentioned.
isAlreadyMentioned_Never(mentionIds, userId) == FALSE

\* mentionIds.some((id) => String(id) === userId)
isAlreadyMentioned(mentionIds, userId) ==
  \E i \in 1..Len(mentionIds) : mentionIds[i] = userId

\* "Notify issue creator".
CreatorBranch(store, mentionIds, commenterId, issueCreatorId, p) ==
  IF /\ issueCreatorId # Null /\ issueCreatorId # commenterId
     /\ ~isAlreadyMentioned(mentionIds, issueCreatorId)
    THEN createNotification(store, [recipientId |-> issueCreatorId] @@ p)
    ELSE store

\* Mutation of CommentAssigneeBranch: an assignee who is the creator is
\* notified again.
CommentAssigneeBranch_AlsoCreator(store, mentionIds, commenterId, issueCreatorId, issueAssigneeId, p) ==
  IF /\ issueAssigneeId # Null /\ issueAssigneeId # commenterId
     /\ ~isAlreadyMentioned(mentionIds, issueAssigneeId)
    THEN createNotification(store, [recipientId |-> issueAssigneeId] @@ p)
    ELSE store

\* "Notify issue assignee".
CommentAssigneeBranch(store, mentionIds, commenterId, issueCreatorId, issueAssigneeId, p) ==
  IF /\ issueAssigneeId # Null /\ issueAssigneeId # commenterId
     /\ issueAssigneeId # issueCreatorId
     /\ ~isAlreadyMentioned(mentionIds, issueAssigneeId)
    THEN createNotification(store, [recipientId |-> issueAssigneeId] @@ p)
    ELSE store

\* comment.service.ts createComment: the stores after the call, its result.
createComment(createDto, userId) ==
  LET unchanged(r) == [comments |-> comments,
                       notifications |-> notifications, result |-> r]
  IN
  IF ~isValidIssueId(createDto.issue)
    THEN unchanged("Invalid issue ID format")
  ELSE IF ~isValidObjectId(userId) THEN unchanged("Invalid user ID format")
  ELSE IF createDto.issue \notin 1..Len(issues)
    THEN unchanged("Issue not found")
  ELSE IF ~UserExists(userId) THEN unchanged("User not found")
  ELSE IF createDto.content = ""
    THEN unchanged("Comment content is required")
  ELSE IF ValidateMentions(createDto.mentions) # "ok"
    THEN unchanged(ValidateMentions(createDto.mentions))
  ELSE
    LET issue      == Loaded(issues[createDto.issue])
        mentionIds == createDto.mentions
        comment == [content |-> createDto.content, issue |-> createDto.issue,
                    createdBy |-> userId, mentions |-> mentionIds]
        by == UserName(userId)
        link == Link(createDto.issue)
        n1 == MentionBranch(notifications, mentionIds, userId,
                [title |-> "You were mentioned",
                 description |-> [text |-> "has mentioned you in a comment",
                                  by |-> by, issue |-> issue.title,
                                  from |-> "", to |-> ""],
                 type |-> "mentioned", link |-> link])
        n2 == CreatorBranch(n1, mentionIds, userId, issue.createdBy,
                [title |-> "Comment added",
                 description |-> [text |-> "has added a comment to your issue",
                                  by |-> by, issue |-> issue.title,
                                  from |-> "", to |-> ""],
                 type |-> "comment_added", link |-> link])
        n3 == CommentAssigneeBranch(n2, mentionIds, userId, issue.createdBy,
                issue.assignee,
                [title |-> "Comment added",
                 description |-> [text |-> "has added a comment to issue",
                                  by |-> by, issue |-> issue.title,
                                  from |-> "", to |-> ""],
                 type |-> "comment_added", link |-> link])
    IN [comments |-> Append(comments, comment), notifications |-> n3,
        result |-> "ok"]

\* Mutation of createCommentController: a comment with empty content is
\* stored before it is rejected.
createCommentController_StoresEmpty(createDto, userId) ==
  IF createDto.content = ""
    THEN [comments |-> Append(comments,
                         [content |-> "", issue |-> createDto.issue,
                          createdBy |-> userId,
                          mentions |-> createDto.mentions]),
          notifications |-> notifications,
          result |-> "Comment content is required"]
  ELSE createComment(createDto, userId)

\* createCommentController: rejects an empty content, then calls
\* createComment with the authenticated user.
createCommentController(createDto, userId) ==
  IF createDto.content = ""
    THEN [comments |-> comments, notifications |-> notifications,
          result |-> "Comment content is required"]
  ELSE createComment(createDto, userId)

CreateComment ==
  \E actor \in UserIds \cup {Ghost}, issue \in 0..(Len(issues) + 1),
     content \in Contents, mentions \in MentionLists :
    LET createDto == [content |-> content, issue |-> issue,
                      mentions |-> mentions]
        r == createCommentController(createDto, actor)
    IN /\ opCount < MaxOps
       /\ comments' = r.comments
       /\ notifications' = r.notifications
       /\ opCount' = opCount + 1
       /\ last' = Outcome("createComment", actor, issue, createDto,
                          IF issue \in 1..Len(issues)
                            THEN Loaded(issues[issue]) ELSE NoIssue,
                          r.result)
       /\ UNCHANGED <<inflight, users, issues>>

Init ==
  /\ users = SeedUsers
  /\ issues = <<>>
  /\ comments = <<>>
  /\ notifications = <<>>
  /\ opCount = 0
  /\ inflight = [slot \in Slots |-> Idle]
  /\ last = [op |-> "none", actor |-> Null, id |-> 0, dto |-> <<>>,
             old |-> NoIssue, result |-> "ok", n0 |-> 0]

Next ==
  \/ CreateIssue
  \/ UpdateIssue
  \/ CreateComment

Spec == Init /\ [][Next]_vars

\* -------------------------------------------- store failures, deleted users
\* What happens to one dispatch from outside: `fail` is the store operation of
\* the dispatch that throws, `wipe` the store operation before which the seed
\* script's User.deleteMany({}) runs; both count from the first store operation
\* after the primary write, 0 stands for never.
Quiet == [fail |-> 0, wipe |-> 0]

\* At most one event in a dispatch of at most n store operations.
Disturbances(n) ==
  {Quiet} \cup {[fail |-> k, wipe |-> 0] : k \in 1..n}
          \cup {[fail |-> 0, wipe |-> k] : k \in 1..n}

\* A dispatch under way: the Notification and User collections, the store
\* operations begun, whether an error left the handler, and for every
\* resolved recipient what its lookup found and whether it was stored.
Start ==
  [store |-> notifications, users |-> users, k |-> 0, threw |-> FALSE,
   trace |-> <<>>]

\* The next store operation begins; deleteMany runs just before it.
StoreOp(env, ctx) ==
  [ctx EXCEPT !.k = @ + 1,
              !.users = IF env.wipe = ctx.k + 1 THEN <<>> ELSE @]

\* The store operation just begun throws.
Failed(env, ctx) == ctx.k = env.fail

\* User.findById during the dispatch.
IsUser(ctx, id) == \E i \in 1..Len(ctx.users) : ctx.users[i] = id

Log(ctx, recipientId, found, stored) ==
  [ctx EXCEPT !.trace = Append(@, [recipientId |-> recipientId,
                                   found |-> found, stored |-> stored])]

Insert(ctx, recipientId, p) ==
  [ctx EXCEPT !.store = Append(@,
     [recipientId |-> recipientId, title |-> p.title,
      description |-> p.description, type |-> p.type, read |-> FALSE,
      link |-> p.link])]

\* Mutation of createNotificationUnder: the recipient is not looked up.
createNotificationUnder_NoLookup(env, ctx, p) ==
  LET c1 == StoreOp(env, ctx)
  IN IF Failed(env, c1) THEN Log(c1, p.recipientId, "error", FALSE)
     ELSE LET c2 == StoreOp(env, c1)
          IN IF Failed(env, c2) THEN Log(c2, p.recipientId, "yes", FALSE)
             ELSE Log(Insert(c2, p.recipientId, p), p.recipientId,
                      IF IsUser(c1, p.recipientId) THEN "yes" ELSE "no", TRUE)

\* utils/notifications.ts createNotification, store operation by store
\* operation: findById, then save, both inside the try block.
createNotificationUnder(env, ctx, p) ==
  LET c1 == StoreOp(env, ctx)
  IN IF Failed(env, c1) THEN Log(c1, p.recipientId, "error", FALSE)
     ELSE IF ~IsUser(c1, p.recipientId)
       THEN Log(c1, p.recipientId, "no", FALSE)
     ELSE LET c2 == StoreOp(env, c1)
          IN IF Failed(env, c2) THEN Log(c2, p.recipientId, "yes", FALSE)
             ELSE Log(Insert(c2, p.recipientId, p), p.recipientId, "yes", TRUE)

\* One insertMany for the whole batch; a failed insertMany stores nothing.
RECURSIVE InsertBatch(_, _, _, _)
InsertBatch(ctx, recipientIds, p, ok) ==
  IF recipientIds = <<>> THEN ctx
  ELSE InsertBatch(
         Log(IF ok THEN Insert(ctx, Head(recipientIds), p) ELSE ctx,
             Head(recipientIds), "yes", ok),
         Tail(recipientIds), p, ok)

\* utils/notifications.ts createNotificationsForUsers.
createNotificationsForUsersUnder(env, ctx, recipientIds, p) ==
  IF Len(recipientIds) > 0
    THEN LET c1 == StoreOp(env, ctx)
         IN InsertBatch(c1, recipientIds, p, ~Failed(env, c1))
    ELSE ctx

\* utils/notifications.ts createNotificationForAllUsers: User.find inside the
\* try block, then createNotificationsForUsers.
createNotificationForAllUsersUnder(env, ctx, senderId, p) ==
  LET c1 == StoreOp(env, ctx)
      recipientIds == SelectSeq(c1.users, LAMBDA u : u # senderId)
  IN IF Failed(env, c1) THEN c1
     ELSE createNotificationsForUsersUnder(env, c1, recipientIds, p)

\* const x = await User.findById(id); if (x) { await createNotification(..) }
\* in the body of createIssue and of createComment: the findById is outside
\* any try block.
FindThenNotify(env, ctx, id, p) ==
  LET c1 == StoreOp(env, ctx)
  IN IF Failed(env, c1) THEN [c1 EXCEPT !.threw = TRUE]
     ELSE IF ~IsUser(c1, id) THEN Log(c1, id, "no", FALSE)
     ELSE createNotificationUnder(env, c1, [recipientId |-> id] @@ p)

\* The calls a handler makes after its primary write, in order, read off the
\* notifications `created` that the undisturbed handler creates: createIssue
\* broadcasts and then looks its assignee up, createComment looks every
\* mentioned user up, everything else is a plain createNotification.
DispatchCalls(op, actor, created) ==
  LET broadcast == SelectSeq(created, LAMBDA n : n.type = "issue_created")
      rest      == SelectSeq(created, LAMBDA n : n.type # "issue_created")
      lookedUp(n) == \/ op = "createIssue" /\ n.type = "issue_assigned"
                     \/ op = "createComment" /\ n.type = "mentioned"
  IN (IF Len(broadcast) > 0
        THEN <<[call |-> "forAllUsers", to |-> actor, p |-> broadcast[1]]>>
        ELSE <<>>)
     \o [i \in 1..Len(rest) |->
          [call |-> IF lookedUp(rest[i]) THEN "findThenNotify" ELSE "notify",
           to |-> rest[i].recipientId, p |-> rest[i]]]

Call(env, ctx, c) ==
  IF c.call = "forAllUsers"
    THEN createNotificationForAllUsersUnder(env, ctx, c.to, c.p)
  ELSE IF c.call = "findThenNotify" THEN FindThenNotify(env, ctx, c.to, c.p)
  ELSE createNotificationUnder(env, ctx, c.p)

\* The calls one after the other; an error that leaves a call ends the
\* handler.
RECURSIVE RunCalls(_, _, _)
RunCalls(env, ctx, calls) ==
  IF calls = <<>> \/ ctx.threw THEN ctx
  ELSE RunCalls(env, Call(env, ctx, Head(calls)), Tail(calls))

\* The dispatch of a handler whose undisturbed run turns the Notification
\* collection into `undisturbed`.
Dispatch(env, op, actor, undisturbed) ==
  RunCalls(env, Start,
    DispatchCalls(op, actor,
      SubSeq(undisturbed, Len(notifications) + 1, Len(undisturbed))))

\* The event of env falls into the dispatch.
Happens(env, op, actor, undisturbed) ==
  /\ env.fail <= Dispatch(env, op, actor, undisturbed).k
  /\ env.wipe <= Dispatch(env, op, actor, undisturbed).k

\* The events that may fall into the dispatch: three store operations at
\* most for every notification of the undisturbed run.
Events(op, actor, undisturbed) ==
  {env \in Disturbances(3 * (Len(undisturbed) - Len(notifications))) :
     Happens(env, op, actor, undisturbed)}

\* What a disturbed request leaves in `last`: a store error that leaves the
\* handler makes the controller answer 500.
DisturbedOutcome(op, actor, id, dto, old, result, env, ctx) ==
  Outcome(op, actor, id, dto, old,
          IF ctx.threw THEN "Internal server error" ELSE result)
    @@ [env |-> env, trace |-> ctx.trace, committed |-> result = "ok"]

\* The requests of the disturbed specification carry no malformed or unknown
\* ids and leave status and priority of a new issue to their defaults.
DisturbedCreateIssue ==
  /\ opCount < MaxOps
  /\ \E actor \in UserIds, title \in Titles, description \in Descriptions,
        assignee \in UserIds \cup {Absent} :
       LET createDto == [title |-> title, description |-> description,
                         priority |-> "Medium", status |-> "Open",
                         assignee |-> IF assignee = Absent THEN Null
                                      ELSE assignee,
                         createdBy |-> actor]
           r == createIssue(createDto)
       IN \E env \in Events("createIssue", actor, r.notifications) :
            LET ctx == Dispatch(env, "createIssue", actor, r.notifications)
            IN /\ issues' = r.issues
               /\ notifications' = ctx.store
               /\ users' = ctx.users
               /\ opCount' = opCount + 1
               /\ last' = DisturbedOutcome("createIssue", actor, Len(issues) + 1,
                            createDto, NoIssue, r.result, env, ctx)
               /\ UNCHANGED <<inflight, comments>>

DisturbedDtos ==
  {d \in UpdateDtos : /\ d.status \in {Absent, "Resolved"}
                      /\ d.priority \in {Absent, "High"}
                      /\ d.description = Absent
                      /\ d.assignee \in UserIds \cup {Absent, Null}}

DisturbedUpdateIssue ==
  /\ opCount < MaxOps
  /\ \E id \in 1..Len(issues), updateDto \in DisturbedDtos, actor \in UserIds :
       LET r == updateIssueController(id, updateDto)
       IN \E env \in Events("updateIssue", actor, r.notifications) :
            LET ctx == Dispatch(env, "updateIssue", actor, r.notifications)
            IN /\ issues' = r.issues
               /\ notifications' = ctx.store
               /\ users' = ctx.users
               /\ opCount' = opCount + 1
               /\ last' = DisturbedOutcome("updateIssue", actor, id, updateDto,
                            Loaded(issues[id]), r.result, env, ctx)
               /\ UNCHANGED <<inflight, comments>>

DisturbedCreateComment ==
  /\ opCount < MaxOps
  /\ \E actor \in UserIds, issue \in 1..Len(issues),
        mentions \in SeqsUpTo(UserIds, MaxMentions) :
       LET createDto == [content |-> "c1", issue |-> issue,
                         mentions |-> mentions]
           r == createCommentController(createDto, actor)
       IN \E env \in Events("createComment", actor, r.notifications) :
            LET ctx == Dispatch(env, "createComment", actor, r.notifications)
            IN /\ comments' = r.comments
               /\ notifications' = ctx.store
               /\ users' = ctx.users
               /\ opCount' = opCount + 1
               /\ last' = DisturbedOutcome("createComment", actor, issue,
                            createDto, Loaded(issues[issue]), r.result, env, ctx)
               /\ UNCHANGED <<inflight, issues>>

NextDisturbed ==
  \/ DisturbedCreateIssue
  \/ DisturbedUpdateIssue
  \/ DisturbedCreateComment

SpecDisturbed == Init /\ [][NextDisturbed]_vars

\* ---------------------------------------------------------------- read side
\* The read side works on notifications that carry the timestamps of
\* { timestamps: true }; the specifications above leave them out. A timestamp
\* is a count of milliseconds: Date.now() is the millisecond of the latest
\* write or a later one.
RECURSIVE Latest(_)
Latest(store) ==
  IF store = <<>> THEN 0
  ELSE LET n == store[Len(store)]
           t == IF n.updatedAt > n.createdAt THEN n.updatedAt ELSE n.createdAt
           rest == Latest(SubSeq(store, 1, Len(store) - 1))
       IN IF t > rest THEN t ELSE rest

\* Date.now() at a write: millisecond 1 for the first write of all.
Ticks(t) == IF t = 0 THEN {1} ELSE {t, t + 1}

\* The notifications a createIssue appended to the first `from` ones, with
\* their timestamps: t1 for the insertMany of the broadcast, t2 for the save
\* of the issue_assigned.
Stamped(store, from, t1, t2) ==
  [i \in 1..Len(store) |->
     IF i <= from THEN store[i]
     ELSE LET t == IF store[i].type = "issue_created" THEN t1 ELSE t2
          IN store[i] @@ [createdAt |-> t, updatedAt |-> t]]

\* A behaviour of the read side ends with its first GET: the request changes
\* no collection, so what may follow it is what may follow without it.
Serving == last.op # "getNotifications"

\* POST /issues of a user, with or without assignee, and the clock.
TimedCreateIssue ==
  /\ Serving
  /\ Len(issues) < MaxIssues
  /\ \E actor \in UserIds, title \in Titles, description \in Descriptions,
        assignee \in UserIds \cup {Absent} :
       LET createDto == [title |-> title, description |-> description,
                         priority |-> "Medium", status |-> "Open",
                         assignee |-> IF assignee = Absent THEN Null
                                      ELSE assignee,
                         createdBy |-> actor]
           r == createIssue(createDto)
       IN \E t1 \in Ticks(Latest(notifications)) :
            \E t2 \in Ticks(t1) :
              /\ issues' = r.issues
              /\ notifications' =
                   Stamped(r.notifications, Len(notifications), t1, t2)
              /\ last' = Outcome("createIssue", actor, Len(issues) + 1,
                                 createDto, NoIssue, r.result)
              /\ UNCHANGED <<inflight, users, comments, opCount>>

\* Notification ids are the positive integers, the index in the collection;
\* 0 stands for a malformed id.
isValidNotificationId(id) == id >= 1

\* The values of the page and limit query parameters, as strings.
Pages == {Absent, "0", "1", "2", "3"}
Limits == {Absent, "0", "1", "2", "100", "101"}

\* parseInt(s, 10)
parseInt(s) ==
  CASE s = "0" -> 0 [] s = "1" -> 1 [] s = "2" -> 2 [] s = "3" -> 3
    [] s = "100" -> 100 [] s = "101" -> 101

formatNotification(store, id) == [_id |-> id] @@ store[id]

\* Notification.find({ recipientId: userIdObj })
Mine(userId) ==
  {i \in 1..Len(notifications) : notifications[i].recipientId = userId}

\* .sort({ createdAt: -1 }): the documents found, latest first; documents
\* with the same createdAt come in any order, and not in the same order in
\* every execution.
Sorts(ids) ==
  {o \in [1..Cardinality(ids) -> ids] :
     /\ \A i, j \in 1..Cardinality(ids) : i # j => o[i] # o[j]
     /\ \A i \in 1..(Cardinality(ids) - 1) :
          notifications[o[i]].createdAt >= notifications[o[i + 1]].createdAt}

\* .skip(skip).limit(limit)
Window(o, skip, limit) ==
  SubSeq(o, skip + 1, IF skip + limit < Len(o) THEN skip + limit ELSE Len(o))

\* Mutation of getNotifications: total counts the notifications of the page.
getNotifications_TotalOfPage(userId, page, limit, sorted) ==
  IF ~isValidObjectId(userId) THEN [result |-> "Invalid user ID format"]
  ELSE IF page < 1 THEN [result |-> "Page must be greater than 0"]
  ELSE IF limit < 1 \/ limit > 100
    THEN [result |-> "Limit must be between 1 and 100"]
  ELSE
    LET skip == (page - 1) * limit
        total == Len(Window(sorted, skip, limit))
        unreadCount ==
          Cardinality({i \in Mine(userId) : ~notifications[i].read})
        found == Window(sorted, skip, limit)
    IN [result |-> "ok",
        data |-> [notifications |->
                    [i \in 1..Len(found) |->
                       formatNotification(notifications, found[i])],
                  total |-> total, page |-> page, limit |-> limit,
                  totalPages |-> (total + limit - 1) \div limit,
                  unreadCount |-> unreadCount]]

\* notification.service.ts getNotifications; `sorted` is what the sort of
\* this execution yields.
getNotifications(userId, page, limit, sorted) ==
  IF ~isValidObjectId(userId) THEN [result |-> "Invalid user ID format"]
  ELSE IF page < 1 THEN [result |-> "Page must be greater than 0"]
  ELSE IF limit < 1 \/ limit > 100
    THEN [result |-> "Limit must be between 1 and 100"]
  ELSE
    LET skip == (page - 1) * limit
        total == Cardinality(Mine(userId))
        unreadCount ==
          Cardinality({i \in Mine(userId) : ~notifications[i].read})
        found == Window(sorted, skip, limit)
    IN [result |-> "ok",
        data |-> [notifications |->
                    [i \in 1..Len(found) |->
                       formatNotification(notifications, found[i])],
                  total |-> total, page |-> page, limit |-> limit,
                  totalPages |-> (total + limit - 1) \div limit,
                  unreadCount |-> unreadCount]]

\* error.message.includes("Invalid")
IncludesInvalid(message) ==
  message \in {"Invalid user ID format", "Invalid notification ID format"}

\* Mutation of getNotificationsController: page and limit are left to the
\* checks of the service.
getNotificationsController_ServiceChecksOnly(userId, page, limit, sorted) ==
  LET pageNum  == IF page # Absent THEN parseInt(page) ELSE 1
      limitNum == IF limit # Absent THEN parseInt(limit) ELSE 10
      r == getNotifications(userId, pageNum, limitNum, sorted)
  IN IF r.result = "ok"
       THEN [status |-> 200, message |-> "ok", data |-> r.data]
     ELSE IF IncludesInvalid(r.result)
       THEN [status |-> 400, message |-> r.result]
     ELSE [status |-> 500, message |-> "Internal server error"]

\* getNotificationsController: the defaults of page and limit, its own checks
\* of them, the call of the service, and the status of each error.
getNotificationsController(userId, page, limit, sorted) ==
  LET pageNum  == IF page # Absent THEN parseInt(page) ELSE 1
      limitNum == IF limit # Absent THEN parseInt(limit) ELSE 10
      r == getNotifications(userId, pageNum, limitNum, sorted)
  IN IF pageNum < 1
       THEN [status |-> 400, message |-> "Page must be greater than 0"]
     ELSE IF limitNum < 1 \/ limitNum > 100
       THEN [status |-> 400, message |-> "Limit must be between 1 and 100"]
     ELSE IF r.result = "ok"
       THEN [status |-> 200, message |-> "ok", data |-> r.data]
     ELSE IF IncludesInvalid(r.result)
       THEN [status |-> 400, message |-> r.result]
     ELSE [status |-> 500, message |-> "Internal server error"]

\* What a request of the read side leaves in `last`: the answer, and the
\* Notification collection as it was before.
Answer(op, actor, id, dto, response) ==
  Outcome(op, actor, id, dto, NoIssue, response.message)
    @@ [status |-> response.status, response |-> response,
        before |-> notifications]

\* The GET requests: every page with every limit that the checks accept, a
\* bad page or a bad limit alone, a malformed user id alone.
Queries ==
  [userId : UserIds, page : Pages \ {"0"}, limit : Limits \ {"0", "101"}]
  \cup [userId : UserIds, page : {"0"}, limit : {Absent}]
  \cup [userId : UserIds, page : {Absent}, limit : {"0", "101"}]
  \cup [userId : {Malformed}, page : {Absent}, limit : {Absent}]

\* GET /notifications?page=..&limit=..
GetNotifications ==
  /\ Serving
  /\ \E q \in Queries :
       \E sorted \in Sorts(Mine(q.userId)) :
         /\ last' = Answer("getNotifications", q.userId, 0,
                           [page |-> q.page, limit |-> q.limit],
                           getNotificationsController(q.userId, q.page, q.limit,
                                                      sorted))
         /\ UNCHANGED <<inflight, users, issues, comments, notifications, opCount>>

\* Mutation of markNotificationAsRead: the owner is not checked.
markNotificationAsRead_AnyOwner(notificationId, userId, t) ==
  LET unchanged(r) == [notifications |-> notifications, result |-> r]
  IN
  IF ~isValidNotificationId(notificationId)
    THEN unchanged("Invalid notification ID format")
  ELSE IF ~isValidObjectId(userId) THEN unchanged("Invalid user ID format")
  ELSE IF notificationId \notin 1..Len(notifications)
    THEN unchanged("Notification not found")
  ELSE
    LET notification == notifications[notificationId]
        saved == IF ~notification.read
                   THEN [notification EXCEPT !.read = TRUE, !.updatedAt = t]
                   ELSE notification
        store == [notifications EXCEPT ![notificationId] = saved]
    IN [notifications |-> store, result |-> "ok",
        data |-> formatNotification(store, notificationId)]

\* Mutation of markNotificationAsRead: the save is made whether the
\* notification is read or not.
markNotificationAsRead_AlwaysSaves(notificationId, userId, t) ==
  LET unchanged(r) == [notifications |-> notifications, result |-> r]
  IN
  IF ~isValidNotificationId(notificationId)
    THEN unchanged("Invalid notification ID format")
  ELSE IF ~isValidObjectId(userId) THEN unchanged("Invalid user ID format")
  ELSE IF notificationId \notin 1..Len(notifications)
    THEN unchanged("Notification not found")
  ELSE IF notifications[notificationId].recipientId # userId
    THEN unchanged("You can only mark your own notifications as read")
  ELSE
    LET notification == notifications[notificationId]
        saved == [notification EXCEPT !.read = TRUE, !.updatedAt = t]
        store == [notifications EXCEPT ![notificationId] = saved]
    IN [notifications |-> store, result |-> "ok",
        data |-> formatNotification(store, notificationId)]

\* notification.service.ts markNotificationAsRead; t is the time of the save.
markNotificationAsRead(notificationId, userId, t) ==
  LET unchanged(r) == [notifications |-> notifications, result |-> r]
  IN
  IF ~isValidNotificationId(notificationId)
    THEN unchanged("Invalid notification ID format")
  ELSE IF ~isValidObjectId(userId) THEN unchanged("Invalid user ID format")
  ELSE IF notificationId \notin 1..Len(notifications)
    THEN unchanged("Notification not found")
  ELSE IF notifications[notificationId].recipientId # userId
    THEN unchanged("You can only mark your own notifications as read")
  ELSE
    LET notification == notifications[notificationId]
        saved == IF ~notification.read
                   THEN [notification EXCEPT !.read = TRUE, !.updatedAt = t]
                   ELSE notification
        store == [notifications EXCEPT ![notificationId] = saved]
    IN [notifications |-> store, result |-> "ok",
        data |-> formatNotification(store, notificationId)]

\* markNotificationAsReadController: the status of each error of the service.
markNotificationAsReadController(notificationId, userId, t) ==
  LET r == markNotificationAsRead(notificationId, userId, t)
  IN IF r.result = "ok"
       THEN [status |-> 200, message |-> "Notification marked as read",
             data |-> r.data, notifications |-> r.notifications]
     ELSE IF r.result = "Notification not found"
       THEN [status |-> 404, message |-> r.result,
             notifications |-> r.notifications]
     ELSE IF r.result = "You can only mark your own notifications as read"
       THEN [status |-> 403, message |-> r.result,
             notifications |-> r.notifications]
     ELSE IF IncludesInvalid(r.result)
       THEN [status |-> 400, message |-> r.result,
             notifications |-> r.notifications]
     ELSE [status |-> 500, message |-> "Internal server error",
           notifications |-> r.notifications]

\* PATCH /notifications/:id/read
MarkNotificationAsRead ==
  /\ Serving
  /\ \E id \in 0..(Len(notifications) + 1), userId \in UserIds \cup {Malformed} :
       \E t \in Ticks(Latest(notifications)) :
         LET response == markNotificationAsReadController(id, userId, t)
         IN /\ notifications' = response.notifications
            /\ last' = Answer("markNotificationAsRead", userId, id, <<>>,
                              response)
            /\ UNCHANGED <<inflight, users, issues, comments, opCount>>

\* Mutation of markAllNotificationsAsRead: the filter of the updateMany
\* leaves the recipient out.
markAllNotificationsAsRead_EveryUser(userId, t) ==
  IF ~isValidObjectId(userId)
    THEN [notifications |-> notifications,
          result |-> "Invalid user ID format"]
  ELSE
    LET matched == {i \in 1..Len(notifications) : ~notifications[i].read}
    IN [notifications |->
          [i \in 1..Len(notifications) |->
             IF i \in matched
               THEN [notifications[i] EXCEPT !.read = TRUE, !.updatedAt = t]
               ELSE notifications[i]],
        result |-> "ok", data |-> [count |-> Cardinality(matched)]]

\* Mutation of markAllNotificationsAsRead: the update replaces the title of
\* the documents it matches.
markAllNotificationsAsRead_Retitles(userId, t) ==
  IF ~isValidObjectId(userId)
    THEN [notifications |-> notifications,
          result |-> "Invalid user ID format"]
  ELSE
    LET matched == {i \in Mine(userId) : ~notifications[i].read}
    IN [notifications |->
          [i \in 1..Len(notifications) |->
             IF i \in matched
               THEN [notifications[i] EXCEPT !.read = TRUE, !.updatedAt = t,
                                             !.title = "Read"]
               ELSE notifications[i]],
        result |-> "ok", data |-> [count |-> Cardinality(matched)]]

\* notification.service.ts markAllNotificationsAsRead: one updateMany at
\* time t, count is its modifiedCount.
markAllNotificationsAsRead(userId, t) ==
  IF ~isValidObjectId(userId)
    THEN [notifications |-> notifications,
          result |-> "Invalid user ID format"]
  ELSE
    LET matched == {i \in Mine(userId) : ~notifications[i].read}
    IN [notifications |->
          [i \in 1..Len(notifications) |->
             IF i \in matched
               THEN [notifications[i] EXCEPT !.read = TRUE, !.updatedAt = t]
               ELSE notifications[i]],
        result |-> "ok", data |-> [count |-> Cardinality(matched)]]

\* markAllNotificationsAsReadController
markAllNotificationsAsReadController(userId, t) ==
  LET r == markAllNotificationsAsRead(userId, t)
  IN IF r.result = "ok"
       THEN [status |-> 200, message |-> "All notifications marked as read",
             data |-> r.data, notifications |-> r.notifications]
     ELSE IF IncludesInvalid(r.result)
       THEN [status |-> 400, message |-> r.result,
             notifications |-> r.notifications]
     ELSE [status |-> 500, message |-> "Internal server error",
           notifications |-> r.notifications]

\* PATCH /notifications/read-all
MarkAllNotificationsAsRead ==
  /\ Serving
  /\ \E userId \in UserIds \cup {Malformed} :
       \E t \in Ticks(Latest(notifications)) :
         LET response == markAllNotificationsAsReadController(userId, t)
         IN /\ notifications' = response.notifications
            /\ last' = Answer("markAllNotificationsAsRead", userId, 0, <<>>,
                              response)
            /\ UNCHANGED <<inflight, users, issues, comments, opCount>>

NextQuery ==
  \/ TimedCreateIssue
  \/ GetNotifications
  \/ MarkNotificationAsRead
  \/ MarkAllNotificationsAsRead

SpecQuery == Init /\ [][NextQuery]_vars

\* ------------------------------------------------------ requests in flight
\* Each await of a handler is a point where other requests run. In this
\* specification a store operation is a step; between two steps of a request
\* its handler holds its local variables in `inflight`.
Free(slot) == [inflight EXCEPT ![slot] = Idle]

\* What a step leaves in `last`: the request, the step, and the answer when
\* the step ends the request.
Step(op, actor, id, step, response) ==
  Outcome(op, actor, id, <<>>, NoIssue, response.message)
    @@ [step |-> step, status |-> response.status, response |-> response]

\* The answer field of a step that does not end its request.
Pending == [status |-> 0, message |-> "pending"]

\* The inserts of the dispatch of createIssue, in the order of the calls: the
\* insertMany of createNotificationForAllUsers, then the save of the
\* issue_assigned notification.
Inserts(created) ==
  LET broadcast == SelectSeq(created, LAMBDA n : n.type = "issue_created")
      assigned  == SelectSeq(created, LAMBDA n : n.type = "issue_assigned")
  IN (IF broadcast = <<>> THEN <<>> ELSE <<broadcast>>)
       \o (IF assigned = <<>> THEN <<>> ELSE <<assigned>>)

\* POST /issues up to Issue.create: the issue is stored, the dispatch is
\* still to come.
BeginCreateIssue ==
  /\ opCount < MaxRequests
  /\ Len(issues) < MaxIssues
  /\ \E slot \in Slots, actor \in UserIds, title \in Titles,
        description \in Descriptions, assignee \in UserIds \cup {Absent} :
       LET createDto == [title |-> title, description |-> description,
                         priority |-> "Medium", status |-> "Open",
                         assignee |-> IF assignee = Absent THEN Null
                                      ELSE assignee,
                         createdBy |-> actor]
           r == createIssue(createDto)
           created == SubSeq(r.notifications, Len(notifications) + 1,
                             Len(r.notifications))
       IN /\ inflight[slot] = Idle
          /\ issues' = r.issues
          /\ inflight' = [inflight EXCEPT ![slot] =
                            [op |-> "createIssue", actor |-> actor,
                             id |-> Len(issues) + 1,
                             inserts |-> Inserts(created)]]
          /\ opCount' = opCount + 1
          /\ last' = Step("createIssue", actor, Len(issues) + 1, "create",
                          Pending)
          /\ UNCHANGED <<users, comments, notifications>>

\* One insert of the dispatch of a createIssue in flight, at time t; after
\* the last one the request is answered.
InsertNotifications ==
  \E slot \in Slots :
    /\ inflight[slot].op = "createIssue"
    /\ \E t \in Ticks(Latest(notifications)) :
         LET request == inflight[slot]
             batch == Head(request.inserts)
             rest  == Tail(request.inserts)
         IN /\ notifications' =
                 notifications
                   \o [i \in 1..Len(batch) |->
                         batch[i] @@ [createdAt |-> t, updatedAt |-> t]]
            /\ inflight' =
                 IF rest = <<>> THEN Free(slot)
                 ELSE [inflight EXCEPT ![slot].inserts = rest]
            /\ last' = Step("createIssue", request.actor, request.id, "insert",
                            IF rest = <<>>
                              THEN [status |-> 201, message |-> "ok"]
                              ELSE Pending)
            /\ UNCHANGED <<users, issues, comments, opCount>>

\* notification.service.ts markNotificationAsRead up to the check of the
\* owner: the checks of the ids and Notification.findById.
findNotification(notificationId, userId) ==
  IF ~isValidNotificationId(notificationId)
    THEN [result |-> "Invalid notification ID format"]
  ELSE IF ~isValidObjectId(userId) THEN [result |-> "Invalid user ID format"]
  ELSE IF notificationId \notin 1..Len(notifications)
    THEN [result |-> "Notification not found"]
  ELSE IF notifications[notificationId].recipientId # userId
    THEN [result |-> "You can only mark your own notifications as read"]
  ELSE [result |-> "ok",
        notification |-> formatNotification(notifications, notificationId)]

\* The status markNotificationAsReadController gives to an error of the
\* service.
MarkFailed(result) ==
  IF result = "Notification not found"
    THEN [status |-> 404, message |-> result]
  ELSE IF result = "You can only mark your own notifications as read"
    THEN [status |-> 403, message |-> result]
  ELSE IF IncludesInvalid(result) THEN [status |-> 400, message |-> result]
  ELSE [status |-> 500, message |-> "Internal server error"]

MarkSucceeded(notification) ==
  [status |-> 200, message |-> "Notification marked as read",
   data |-> notification]

\* PATCH /notifications/:id/read up to the findById: an error or a
\* notification that is read ends the request; for an unread one the handler
\* sets read on its copy and calls save.
LoadNotification ==
  /\ opCount < MaxRequests
  /\ \E slot \in Slots, id \in 1..(Len(notifications) + 1), userId \in UserIds :
       LET r == findNotification(id, userId)
       IN /\ inflight[slot] = Idle
          /\ opCount' = opCount + 1
          /\ IF r.result # "ok"
               THEN /\ last' = Step("markNotificationAsRead", userId, id,
                                    "findById", MarkFailed(r.result))
                    /\ UNCHANGED inflight
             ELSE IF r.notification.read
               THEN /\ last' = Step("markNotificationAsRead", userId, id,
                                    "findById", MarkSucceeded(r.notification))
                    /\ UNCHANGED inflight
             ELSE /\ last' = Step("markNotificationAsRead", userId, id,
                                  "findById", Pending)
                  /\ inflight' = [inflight EXCEPT ![slot] =
                                    [op |-> "markNotificationAsRead",
                                     actor |-> userId, id |-> id,
                                     notification |->
                                       [r.notification EXCEPT !.read = TRUE]]]
          /\ UNCHANGED <<users, issues, comments, notifications>>

\* notification.save() of a markNotificationAsRead in flight, at time t: the
\* update of the modified path read, and of updatedAt, on the document with
\* the _id of the copy; the answer is the copy.
SaveNotification ==
  \E slot \in Slots :
    /\ inflight[slot].op = "markNotificationAsRead"
    /\ \E t \in Ticks(Latest(notifications)) :
         LET request == inflight[slot]
             saved == [request.notification EXCEPT !.updatedAt = t]
         IN /\ notifications' =
                 [notifications EXCEPT ![request.id] =
                    [@ EXCEPT !.read = TRUE, !.updatedAt = t]]
            /\ inflight' = Free(slot)
            /\ last' = Step("markNotificationAsRead", request.actor,
                            request.id, "save", MarkSucceeded(saved))
            /\ UNCHANGED <<users, issues, comments, opCount>>

\* PATCH /notifications/read-all: its one store operation is the updateMany.
UpdateManyNotifications ==
  /\ opCount < MaxRequests
  /\ \E userId \in UserIds :
       \E t \in Ticks(Latest(notifications)) :
         LET response == markAllNotificationsAsReadController(userId, t)
         IN /\ notifications' = response.notifications
            /\ opCount' = opCount + 1
            /\ last' = Step("markAllNotificationsAsRead", userId, 0,
                            "updateMany",
                            [status |-> response.status,
                             message |-> response.message,
                             data |-> response.data])
            /\ UNCHANGED <<users, issues, comments, inflight>>

\* The page and limit of the GET requests in flight.
Windows == {<<1, 1>>, <<1, 10>>, <<2, 1>>}

\* GET /notifications up to the first countDocuments: the checks of the
\* service, and total.
CountTotal ==
  /\ opCount < MaxRequests
  /\ \E slot \in Slots, userId \in UserIds, w \in Windows :
       /\ inflight[slot] = Idle
       /\ getNotifications(userId, w[1], w[2], <<>>).result = "ok"
       /\ inflight' = [inflight EXCEPT ![slot] =
                         [op |-> "getNotifications", actor |-> userId,
                          page |-> w[1], limit |-> w[2], step |-> "total",
                          total |-> Cardinality(Mine(userId)),
                          unreadCount |-> 0]]
       /\ opCount' = opCount + 1
       /\ last' = Step("getNotifications", userId, 0, "total", Pending)
       /\ UNCHANGED <<users, issues, comments, notifications>>

\* The second countDocuments of a getNotifications in flight: unreadCount.
CountUnread ==
  \E slot \in Slots :
    /\ inflight[slot].op = "getNotifications"
    /\ inflight[slot].step = "total"
    /\ LET request == inflight[slot]
           unread == {i \in Mine(request.actor) : ~notifications[i].read}
       IN /\ inflight' = [inflight EXCEPT ![slot].step = "unread",
                             ![slot].unreadCount = Cardinality(unread)]
          /\ last' = Step("getNotifications", request.actor, 0, "unread",
                          Pending)
          /\ UNCHANGED <<users, issues, comments, notifications, opCount>>

\* The find of a getNotifications in flight, and its answer: the page is of
\* the store as it is now, total and unreadCount are what was counted.
FindNotifications ==
  \E slot \in Slots :
    /\ inflight[slot].op = "getNotifications"
    /\ inflight[slot].step = "unread"
    /\ \E sorted \in Sorts(Mine(inflight[slot].actor)) :
         LET request == inflight[slot]
             now == getNotifications(request.actor, request.page,
                                     request.limit, sorted).data
             data == [now EXCEPT !.total = request.total,
                        !.totalPages =
                          (request.total + request.limit - 1)
                            \div request.limit,
                        !.unreadCount = request.unreadCount]
         IN /\ inflight' = Free(slot)
            /\ last' = Step("getNotifications", request.actor, 0, "find",
                            [status |-> 200, message |-> "ok", data |-> data])
            /\ UNCHANGED <<users, issues, comments, notifications, opCount>>

NextInterleaved ==
  \/ BeginCreateIssue
  \/ InsertNotifications
  \/ LoadNotification
  \/ SaveNotification
  \/ UpdateManyNotifications
  \/ CountTotal
  \/ CountUnread
  \/ FindNotifications

SpecInterleaved == Init /\ [][NextInterleaved]_vars

\* ------------------------------------------------- updateIssue in flight
\* The steps of updateIssue next to those of other updateIssue requests on
\* the same issue. As in the first specification the notifications carry no
\* timestamps here.

\* issue.save() of a document loaded as `loaded`: the update sets the paths
\* whose value the handler changed, and leaves the others as they are stored.
SavePaths(stored, loaded, updateDto, assigneeId) ==
  LET assigned == ApplyUpdate(loaded, updateDto, assigneeId)
      path(key) == IF assigned[key] # loaded[key] THEN assigned[key]
                   ELSE stored[key]
  IN [title |-> path("title"), description |-> path("description"),
      priority |-> path("priority"), status |-> path("status"),
      assignee |-> path("assignee"), createdBy |-> stored.createdBy]

\* The notifications updateIssue creates after its save, in the order of
\* the createNotification calls; `loaded` is the document of its findById.
UpdateInserts(id, loaded, updateDto) ==
  LET old == Loaded(loaded)
      by  == UpdaterName(old, Absent)
      assigneeId == toObjectId(updateDto.assignee)
      updatedIssue == UpdatedIssue(old, updateDto, assigneeId)
      n1 == StatusBranch(<<>>, updateDto, old, updatedIssue, by, id)
      n2 == PriorityBranch(n1, updateDto, old, updatedIssue, by, id)
      n3 == AssigneeBranch(n2, updateDto, old, updatedIssue, by, id)
      n4 == GeneralBranch(n3, updateDto, old, updatedIssue, by, id)
  IN [k \in 1..Len(n4) |-> <<n4[k]>>]

\* The payloads of the requests in flight: status, priority or both.
StatusAndPriorityDtos ==
  {d \in UpdateDtos : /\ d.title = Absent /\ d.description = Absent
                      /\ d.assignee = Absent /\ d # EmptyDto}

\* PATCH /issues/:id up to Issue.findById: an error ends the request, else
\* the handler holds the document it loaded.
LoadIssue ==
  /\ opCount < MaxRequests
  /\ \E slot \in Slots, id \in 1..(Len(issues) + 1),
        updateDto \in StatusAndPriorityDtos :
       LET r == updateIssueController(id, updateDto)
       IN /\ inflight[slot] = Idle
          /\ opCount' = opCount + 1
          /\ IF r.result # "ok"
               THEN /\ last' =
                         Step("updateIssue", Absent, id, "findById",
                              [status |-> IF r.result = "Issue not found"
                                            THEN 404 ELSE 400,
                               message |-> r.result])
                    /\ UNCHANGED inflight
               ELSE /\ last' = Step("updateIssue", Absent, id, "findById",
                                    Pending)
                    /\ inflight' = [inflight EXCEPT ![slot] =
                                      [op |-> "updateIssue", id |-> id,
                                       actor |-> Absent, step |-> "loaded",
                                       loaded |-> issues[id],
                                       updateDto |-> updateDto,
                                       inserts |-> <<>>]]
          /\ UNCHANGED <<users, issues, comments, notifications>>

\* issue.save() of an updateIssue in flight; the notifications it is going to
\* create are fixed by what it loaded and by its payload.
SaveIssue ==
  \E slot \in Slots :
    /\ inflight[slot].op = "updateIssue"
    /\ inflight[slot].step = "loaded"
    /\ LET request == inflight[slot]
           inserts == UpdateInserts(request.id, request.loaded,
                                    request.updateDto)
       IN /\ issues' =
               [issues EXCEPT ![request.id] =
                  SavePaths(@, request.loaded, request.updateDto,
                            toObjectId(request.updateDto.assignee))]
          /\ inflight' =
               IF inserts = <<>> THEN Free(slot)
               ELSE [inflight EXCEPT ![slot].step = "saved",
                                     ![slot].inserts = inserts]
          /\ last' = Step("updateIssue", Absent, request.id, "save",
                          IF inserts = <<>>
                            THEN [status |-> 200, message |-> "ok"]
                            ELSE Pending)
          /\ UNCHANGED <<users, comments, notifications, opCount>>

\* One insert of a dispatch in flight, of createIssue or of an updateIssue
\* that has saved; after the last one the request is answered.
AppendNotifications ==
  \E slot \in Slots :
    /\ inflight[slot].op \in {"createIssue", "updateIssue"}
    /\ inflight[slot].inserts # <<>>
    /\ LET request == inflight[slot]
           rest == Tail(request.inserts)
       IN /\ notifications' = notifications \o Head(request.inserts)
          /\ inflight' =
               IF rest = <<>> THEN Free(slot)
               ELSE [inflight EXCEPT ![slot].inserts = rest]
          /\ last' = Step(request.op, request.actor, request.id, "insert",
                          IF rest = <<>>
                            THEN [status |-> 200, message |-> "ok"]
                            ELSE Pending)
          /\ UNCHANGED <<users, issues, comments, opCount>>

NextUpdates ==
  \/ BeginCreateIssue
  \/ LoadIssue
  \/ SaveIssue
  \/ AppendNotifications

SpecUpdates == Init /\ [][NextUpdates]_vars

\* ------------------------------------------- the other comment requests
\* Comment ids are the positive integers, the index in the collection; 0
\* stands for a malformed id. A deleted comment leaves its place to Removed:
\* its id is not given to another comment.
isValidCommentId(id) == id >= 1

Removed == [content |-> "", issue |-> 0, createdBy |-> Null, mentions |-> <<>>]

\* Comment.findById(commentId) finds a document.
CommentExists(commentId) ==
  commentId \in 1..Len(comments) /\ comments[commentId] # Removed

\* Mutation of updateComment: the users of the new mentions list are notified.
updateComment_NotifiesMentions(commentId, updateDto, userId) ==
  LET unchanged(r) == [comments |-> comments,
                       notifications |-> notifications, result |-> r]
      hasMentions == "mentions" \in DOMAIN updateDto
  IN
  IF ~isValidCommentId(commentId) THEN unchanged("Invalid comment ID format")
  ELSE IF ~isValidObjectId(userId) THEN unchanged("Invalid user ID format")
  ELSE IF updateDto.content = "" THEN unchanged("Comment content is required")
  ELSE IF ~CommentExists(commentId) THEN unchanged("Comment not found")
  ELSE IF comments[commentId].createdBy # userId
    THEN unchanged("You can only update your own comments")
  ELSE IF hasMentions /\ ValidateMentions(updateDto.mentions) # "ok"
    THEN unchanged(ValidateMentions(updateDto.mentions))
  ELSE
    [comments |->
       [comments EXCEPT ![commentId] =
          [@ EXCEPT !.content = updateDto.content,
                    !.mentions = IF hasMentions THEN updateDto.mentions
                                 ELSE @]],
     notifications |->
       IF hasMentions
         THEN MentionBranch(notifications, updateDto.mentions, userId,
                [title |-> "You were mentioned",
                 description |-> [text |-> "has mentioned you in a comment",
                                  by |-> UserName(userId), issue |-> "",
                                  from |-> "", to |-> ""],
                 type |-> "mentioned",
                 link |-> Link(comments[commentId].issue)])
         ELSE notifications,
     result |-> "ok"]

\* comment.service.ts updateComment: the stores after the call, its result.
updateComment(commentId, updateDto, userId) ==
  LET unchanged(r) == [comments |-> comments,
                       notifications |-> notifications, result |-> r]
      hasMentions == "mentions" \in DOMAIN updateDto
  IN
  IF ~isValidCommentId(commentId) THEN unchanged("Invalid comment ID format")
  ELSE IF ~isValidObjectId(userId) THEN unchanged("Invalid user ID format")
  ELSE IF updateDto.content = "" THEN unchanged("Comment content is required")
  ELSE IF ~CommentExists(commentId) THEN unchanged("Comment not found")
  ELSE IF comments[commentId].createdBy # userId
    THEN unchanged("You can only update your own comments")
  ELSE IF hasMentions /\ ValidateMentions(updateDto.mentions) # "ok"
    THEN unchanged(ValidateMentions(updateDto.mentions))
  ELSE
    [comments |->
       [comments EXCEPT ![commentId] =
          [@ EXCEPT !.content = updateDto.content,
                    !.mentions = IF hasMentions THEN updateDto.mentions
                                 ELSE @]],
     notifications |-> notifications, result |-> "ok"]

\* updateCommentController: rejects an empty content, then calls
\* updateComment with the authenticated user.
updateCommentController(id, updateDto, userId) ==
  IF updateDto.content = ""
    THEN [comments |-> comments, notifications |-> notifications,
          result |-> "Comment content is required"]
  ELSE updateComment(id, updateDto, userId)

\* The bodies of PATCH /comments/:id: with and without a mentions array.
UpdateCommentDtos ==
  [content : Contents]
  \cup [content : {"c2"},
        mentions : {<<>>, <<"u1">>, <<"u2", "u3">>, <<Ghost>>}]

\* The comment a request names, or none.
CommentOrNone(id) == IF CommentExists(id) THEN comments[id] ELSE Removed

\* PATCH /comments/:id
UpdateComment ==
  /\ opCount < MaxRequests
  /\ \E id \in 0..(Len(comments) + 1), userId \in UserIds,
        updateDto \in UpdateCommentDtos :
       LET r == updateCommentController(id, updateDto, userId)
       IN /\ comments' = r.comments
          /\ notifications' = r.notifications
          /\ opCount' = opCount + 1
          /\ last' = Outcome("updateComment", userId, id, updateDto,
                             CommentOrNone(id), r.result)
          /\ UNCHANGED <<users, issues, inflight>>

\* comment.service.ts deleteComment
deleteComment(commentId, userId) ==
  LET unchanged(r) == [comments |-> comments,
                       notifications |-> notifications, result |-> r]
  IN
  IF ~isValidCommentId(commentId) THEN unchanged("Invalid comment ID format")
  ELSE IF ~isValidObjectId(userId) THEN unchanged("Invalid user ID format")
  ELSE IF ~CommentExists(commentId) THEN unchanged("Comment not found")
  ELSE IF comments[commentId].createdBy # userId
    THEN unchanged("You can only delete your own comments")
  ELSE [comments |-> [comments EXCEPT ![commentId] = Removed],
        notifications |-> notifications, result |-> "ok"]

\* DELETE /comments/:id
DeleteComment ==
  /\ opCount < MaxRequests
  /\ \E id \in 0..(Len(comments) + 1), userId \in UserIds \cup {Malformed} :
       LET r == deleteComment(id, userId)
       IN /\ comments' = r.comments
          /\ notifications' = r.notifications
          /\ opCount' = opCount + 1
          /\ last' = Outcome("deleteComment", userId, id, <<>>,
                             CommentOrNone(id), r.result)
          /\ UNCHANGED <<users, issues, inflight>>

\* Comment.find({ issue }): the comments of an issue.
CommentsOf(issueId) ==
  {i \in 1..Len(comments) : CommentExists(i) /\ comments[i].issue = issueId}

\* The orders a sort of the documents `ids` can yield; comments carry no
\* createdAt here, so every order stands for some timing of their creation.
Orders(ids) ==
  {o \in [1..Cardinality(ids) -> ids] :
     \A i, j \in 1..Cardinality(ids) : i # j => o[i] # o[j]}

\* comment.service.ts getCommentsByIssue; `sorted` is what the sort yields.
getCommentsByIssue(issueId, page, limit, sorted) ==
  IF ~isValidIssueId(issueId) THEN [result |-> "Invalid issue ID format"]
  ELSE IF issueId \notin 1..Len(issues) THEN [result |-> "Issue not found"]
  ELSE IF page < 1 THEN [result |-> "Page must be greater than 0"]
  ELSE IF limit < 1 \/ limit > 100
    THEN [result |-> "Limit must be between 1 and 100"]
  ELSE
    LET skip  == (page - 1) * limit
        total == Cardinality(CommentsOf(issueId))
        found == Window(sorted, skip, limit)
    IN [result |-> "ok",
        data |-> [comments |->
                    [i \in 1..Len(found) |->
                       [_id |-> found[i]] @@ comments[found[i]]],
                  total |-> total, page |-> page, limit |-> limit,
                  totalPages |-> (total + limit - 1) \div limit]]

\* GET /comments/issue/:issueId?page=..&limit=..
GetComments ==
  /\ opCount < MaxRequests
  /\ \E issueId \in 0..(Len(issues) + 1), w \in Windows :
       \E sorted \in Orders(CommentsOf(issueId)) :
         /\ opCount' = opCount + 1
         /\ last' = Outcome("getCommentsByIssue", Absent, issueId,
                            [page |-> w[1], limit |-> w[2]], NoIssue,
                            getCommentsByIssue(issueId, w[1], w[2],
                                               sorted).result)
              @@ [response |-> getCommentsByIssue(issueId, w[1], w[2],
                                                  sorted)]
         /\ UNCHANGED <<users, issues, comments, notifications, inflight>>

NextComments ==
  \/ BeginCreateIssue
  \/ AppendNotifications
  \/ CreateComment
  \/ UpdateComment
  \/ DeleteComment
  \/ GetComments

SpecComments == Init /\ [][NextComments]_vars

\* ================================================================== claims
\* The notifications the last request created, in the order of creation.
Created == SubSeq(notifications, last.n0 + 1, Len(notifications))

CreatedWhere(P(_)) == SelectSeq(Created, P)

OfType(t) == CreatedWhere(LAMBDA n : n.type = t)

RecipientsOf(seq) == {seq[i].recipientId : i \in 1..Len(seq)}

\* A successful updateIssue request was handled last.
Updated == last.op = "updateIssue" /\ last.result = "ok"

\* The assignee of the issue after the last update, read from the payload.
PostAssignee ==
  IF last.dto.assignee = Absent THEN last.old.assignee ELSE last.dto.assignee

Creator == last.old.createdBy

StatusDiffers == last.dto.status # Absent /\ last.dto.status # last.old.status

PriorityDiffers ==
  last.dto.priority # Absent /\ last.dto.priority # last.old.priority

\* The general notices of the title/description branch (the unassignment
\* notice has the same type and another title).
GeneralNotices == CreatedWhere(LAMBDA n : n.title = "Issue Updated")

UnassignNotices == CreatedWhere(LAMBDA n : n.title = "Issue Unassigned")

\* C1: no notification created by createIssue, updateIssue or createComment
\* is addressed to the authenticated user who performed the request.
C1_ActorNeverNotified ==
  last.op \in {"createIssue", "updateIssue", "createComment"}
    => \A i \in 1..Len(Created) : Created[i].recipientId # last.actor

\* The case C1 singles out: a status, priority or title/description update
\* does not notify the user who performed it. The code breaks it as well
\* (the creator who changes the status of the own issue is notified).
C1_UpdateNeverNotifiesActor ==
  last.op = "updateIssue" =>
    \A i \in 1..Len(Created) :
      Created[i].title \in {"Status Changed", "Priority Changed",
                            "Issue Updated"}
        => Created[i].recipientId # last.actor

\* C2: a status change by an actor who is neither assignee nor creator, on an
\* issue whose assignee is another user than its creator, creates exactly two
\* status_changed notifications, one for the assignee, one for the creator.
C2_Case ==
  /\ Updated /\ StatusDiffers
  /\ PostAssignee # Null /\ PostAssignee # Creator
  /\ last.actor \notin {PostAssignee, Creator}

C2_StatusChangeNotifiesBoth ==
  C2_Case =>
    /\ Len(OfType("status_changed")) = 2
    /\ RecipientsOf(OfType("status_changed")) = {PostAssignee, Creator}

C2_Witness == C2_Case /\ Len(OfType("status_changed")) = 2

\* C3: a status change on an issue whose assignee after the update is its
\* creator creates exactly one status_changed notification.
C3_Case == Updated /\ StatusDiffers /\ PostAssignee = Creator

C3_SameUserNotifiedOnce ==
  C3_Case => Len(OfType("status_changed")) = 1

C3_Witness ==
  C3_Case /\ Len(OfType("status_changed")) = 1
          /\ OfType("status_changed")[1].recipientId = Creator

\* C4: status_changed notifications are created only by an update whose
\* payload status differs from the status stored before it, and each names
\* that stored status as the old and the payload status as the new value.
C4_StatusChangedOnlyOnChange ==
  /\ OfType("status_changed") # <<>> => Updated /\ StatusDiffers
  /\ \A i \in 1..Len(OfType("status_changed")) :
       /\ OfType("status_changed")[i].description.from = last.old.status
       /\ OfType("status_changed")[i].description.to = last.dto.status
       /\ last.old.status # last.dto.status

C4_Witness ==
  /\ Updated /\ StatusDiffers
  /\ Len(OfType("status_changed")) >= 1
  /\ OfType("status_changed")[1].description.from = last.old.status
  /\ OfType("status_changed")[1].description.to = last.dto.status

\* The recipients the status rule names for the issue as it is after the
\* update: its assignee and its creator.
RuleRecipients == {PostAssignee, Creator} \ {Null}

\* C5: a priority change creates one priority_changed notification for each
\* user the status rule names (assignee after the update and creator, once
\* when they are the same user), and none without a change of priority.
C5_PriorityFollowsStatusRule ==
  /\ Updated /\ PriorityDiffers =>
       /\ RecipientsOf(OfType("priority_changed")) = RuleRecipients
       /\ Len(OfType("priority_changed")) = Cardinality(RuleRecipients)
       /\ StatusDiffers =>
            [i \in 1..Len(OfType("priority_changed")) |->
               OfType("priority_changed")[i].recipientId]
            = [i \in 1..Len(OfType("status_changed")) |->
                 OfType("status_changed")[i].recipientId]
  /\ ~(Updated /\ PriorityDiffers) => OfType("priority_changed") = <<>>

C5_Witness ==
  /\ Updated /\ PriorityDiffers /\ ~StatusDiffers
  /\ PostAssignee # Null /\ PostAssignee # Creator
  /\ Len(OfType("priority_changed")) = 2

\* The payload sets an assignee (a user) / clears the assignee.
SetsAssignee == Updated /\ last.dto.assignee \notin {Absent, Null}

ClearsAssignee == Updated /\ last.dto.assignee = Null

\* C6: setting an assignee other than the previous one creates exactly one
\* issue_assigned notification, for the new assignee, whoever the actor is,
\* and nothing for the previous assignee; setting the same assignee creates
\* nothing in the assignee branch.
C6_NewAssigneeNotifiedOnly ==
  /\ SetsAssignee /\ last.dto.assignee # last.old.assignee =>
       /\ Len(OfType("issue_assigned")) = 1
       /\ OfType("issue_assigned")[1].recipientId = last.dto.assignee
       /\ UnassignNotices = <<>>
  /\ SetsAssignee /\ last.dto.assignee = last.old.assignee =>
       OfType("issue_assigned") = <<>> /\ UnassignNotices = <<>>

C6_Witness ==
  /\ SetsAssignee /\ last.old.assignee # Null
  /\ last.dto.assignee # last.old.assignee
  /\ last.actor = last.dto.assignee
  /\ Len(OfType("issue_assigned")) = 1

\* C7: clearing the assignee of an issue that had one creates exactly one
\* issue_updated notification, for the previous assignee, and no
\* issue_assigned; clearing an issue without assignee creates neither.
C7_UnassignNotifiesPrevious ==
  /\ ClearsAssignee /\ last.old.assignee # Null =>
       /\ Len(OfType("issue_updated")) = 1
       /\ OfType("issue_updated")[1].recipientId = last.old.assignee
       /\ OfType("issue_updated")[1].title = "Issue Unassigned"
       /\ OfType("issue_assigned") = <<>>
  /\ ClearsAssignee /\ last.old.assignee = Null =>
       OfType("issue_updated") = <<>> /\ OfType("issue_assigned") = <<>>

C7_Witness ==
  /\ ClearsAssignee /\ last.old.assignee # Null
  /\ Len(OfType("issue_updated")) = 1

\* C8: an update that changes status, priority and assignee together creates
\* the notifications of all three branches, and those of the status and the
\* priority branch go to the assignee as it is after the update (nobody when
\* cleared) and the creator, never to the assignee as it was before.
C8_BranchesIndependent ==
  Updated /\ StatusDiffers /\ PriorityDiffers
    /\ last.dto.assignee # Absent /\ last.dto.assignee # last.old.assignee
  =>
    /\ RecipientsOf(OfType("status_changed")) = RuleRecipients
    /\ RecipientsOf(OfType("priority_changed")) = RuleRecipients
    /\ Len(OfType("status_changed")) = Cardinality(RuleRecipients)
    /\ Len(OfType("priority_changed")) = Cardinality(RuleRecipients)
    /\ IF last.dto.assignee # Null
         THEN /\ Len(OfType("issue_assigned")) = 1
              /\ OfType("issue_assigned")[1].recipientId = last.dto.assignee
         ELSE /\ Len(UnassignNotices) = 1
              /\ UnassignNotices[1].recipientId = last.old.assignee
    /\ Len(Created) = Len(OfType("status_changed"))
                      + Len(OfType("priority_changed")) + 1

C8_Witness ==
  /\ Updated /\ StatusDiffers /\ PriorityDiffers
  /\ last.dto.assignee \notin {Absent, Null}
  /\ last.old.assignee \notin {Null, last.dto.assignee, Creator}
  /\ last.dto.assignee # Creator
  /\ Len(Created) = 5
  /\ last.old.assignee \notin RecipientsOf(Created)

\* C9: the general issue_updated notice is created only when the payload
\* has none of the keys status, priority, assignee; a title sent with the
\* stored status creates nothing; no request creates a general notice next
\* to a notification of another branch.
C9_GeneralOnlyWithoutKeys ==
  /\ GeneralNotices # <<>> =>
       /\ Updated
       /\ last.dto.status = Absent
       /\ last.dto.priority = Absent
       /\ last.dto.assignee = Absent
       /\ GeneralNotices = Created
  /\ ( /\ Updated /\ last.dto.title # Absent
       /\ last.dto.status = last.old.status
       /\ last.dto.priority = Absent /\ last.dto.assignee = Absent )
     => Created = <<>>

C9_Witness ==
  /\ Updated /\ last.dto.title # Absent
  /\ last.dto.status = last.old.status
  /\ last.dto.priority = Absent /\ last.dto.assignee = Absent
  /\ Created = <<>>

\* C10: after a successful createIssue by user A every other user has exactly
\* one new issue_created notification that links to the new issue, and A has
\* none.
C10_BroadcastToAllButCreator ==
  last.op = "createIssue" /\ last.result = "ok" =>
    \A i \in 1..Len(users) :
      Len(CreatedWhere(LAMBDA n : /\ n.type = "issue_created"
                                  /\ n.recipientId = users[i]
                                  /\ n.link = Link(last.id)))
      = IF users[i] = last.actor THEN 0 ELSE 1

C10_Witness ==
  /\ last.op = "createIssue" /\ last.result = "ok"
  /\ Len(OfType("issue_created")) = Len(users) - 1
  /\ last.actor \notin RecipientsOf(OfType("issue_created"))

\* A successful createIssue request was handled last.
IssueCreated == last.op = "createIssue" /\ last.result = "ok"

\* The notifications of type t the last request created for user u.
CreatedFor(u, t) ==
  CreatedWhere(LAMBDA n : n.type = t /\ n.recipientId = u)

\* C11: a createIssue that carries an assignee creates, besides the
\* issue_created broadcast to every user but the creator, exactly one
\* issue_assigned, addressed to that assignee, so that an assignee other than
\* the creator receives one issue_created and one issue_assigned; a
\* createIssue without assignee creates no issue_assigned.
C11_AssigneeGetsIssueAssigned ==
  IssueCreated =>
    LET assignee == last.dto.assignee
        assigned == OfType("issue_assigned")
    IN /\ RecipientsOf(OfType("issue_created")) = UserIds \ {last.actor}
       /\ IF assignee = Null THEN Len(assigned) = 0
          ELSE /\ Len(assigned) = 1
               /\ assigned[1].recipientId = assignee
               /\ assignee # last.actor =>
                    Len(CreatedFor(assignee, "issue_created")) = 1

C11_Witness ==
  /\ IssueCreated
  /\ last.dto.assignee \notin {Null, last.actor}
  /\ Len(CreatedFor(last.dto.assignee, "issue_assigned")) = 1
  /\ Len(CreatedFor(last.dto.assignee, "issue_created")) = 1

\* A successful createComment request was handled last.
Commented == last.op = "createComment" /\ last.result = "ok"

\* The users the mentions list of the last request names.
Mentioned == {last.dto.mentions[i] : i \in 1..Len(last.dto.mentions)}

\* C12: no user named in the mentions list of a createComment receives a
\* comment_added from that comment, be it the creator or the assignee of the
\* issue: the mention wins.
C12_MentionWinsOverCommentAdded ==
  Commented => RecipientsOf(OfType("comment_added")) \cap Mentioned = {}

C12_Witness ==
  /\ Commented
  /\ Creator \in Mentioned \ {last.actor}
  /\ last.old.assignee \in Mentioned \ {last.actor, Creator}
  /\ Len(OfType("mentioned")) > 0
  /\ Len(OfType("comment_added")) = 0

\* The creator of the commented issue is due a comment_added.
CreatorDue == Creator \notin {Null, last.actor} /\ Creator \notin Mentioned

\* The assignee of the commented issue is due a comment_added.
AssigneeDue ==
  /\ last.old.assignee \notin {Null, last.actor, Creator}
  /\ last.old.assignee \notin Mentioned

\* C13: after a createComment the creator of the issue has exactly one
\* comment_added if and only if it is neither the commenter nor mentioned,
\* the assignee has exactly one if and only if it is neither the commenter
\* nor the creator nor mentioned, and nobody else has any.
C13_CommentAddedRecipients ==
  Commented =>
    \A u \in UserIds \cup {Ghost} :
      Len(CreatedFor(u, "comment_added")) =
        IF (u = Creator /\ CreatorDue) \/ (u = last.old.assignee /\ AssigneeDue)
          THEN 1 ELSE 0

C13_Witness ==
  /\ Commented /\ CreatorDue /\ AssigneeDue
  /\ Len(OfType("comment_added")) = 2

C13_WitnessSameUser ==
  /\ Commented /\ CreatorDue /\ last.old.assignee = Creator
  /\ Len(OfType("comment_added")) = 1

\* C14: every mentioned user other than the commenter receives exactly one
\* mentioned notification of a createComment, whatever the mentions list, a
\* list naming the same user twice included; the commenter receives none.
C14_MentionedOnce ==
  Commented =>
    \A u \in UserIds :
      Len(CreatedFor(u, "mentioned")) =
        IF u \in Mentioned /\ u # last.actor THEN 1 ELSE 0

\* The part of C14 the code keeps: a mentions list without repetition.
C14_MentionedOncePerEntry ==
  Commented =>
    \A u \in UserIds :
      Len(CreatedFor(u, "mentioned")) =
        IF u = last.actor THEN 0
        ELSE Cardinality({i \in 1..Len(last.dto.mentions) :
                           last.dto.mentions[i] = u})

\* The primary write of the last request was committed.
Committed == last.op # "none" /\ last.committed

\* The issue or comment the last request wrote is in the store.
PrimaryStored ==
  IF last.op = "createComment"
    THEN /\ Len(comments) > 0
         /\ comments[Len(comments)].issue = last.id
         /\ comments[Len(comments)].createdBy = last.actor
  ELSE /\ last.id \in 1..Len(issues)
       /\ last.op = "createIssue" => issues[last.id].createdBy = last.actor
       /\ last.op = "updateIssue" /\ last.dto.title # Absent =>
            issues[last.id].title = last.dto.title

\* C15: a store operation of the dispatch that fails after the primary write
\* was committed never reaches the caller: createIssue, updateIssue and
\* createComment return success and the issue or comment stays stored.
C15_DispatchFailureNeverPropagates ==
  Committed /\ last.env.fail > 0 => last.result = "ok" /\ PrimaryStored

\* The part of C15 that holds: every store operation of updateIssue's
\* dispatch, and every one inside utils/notifications.ts, fails silently.
C15_GuardedFailuresSwallowed ==
  /\ Committed /\ last.env.fail > 0 /\ last.op = "updateIssue" =>
       last.result = "ok" /\ PrimaryStored
  /\ Committed /\ last.env.fail > 0 => PrimaryStored

Got == last.op = "getNotifications" /\ last.status = 200

\* The page and the limit of the last GET, as numbers.
AskedPage == IF last.dto.page = Absent THEN 1 ELSE parseInt(last.dto.page)

AskedLimit == IF last.dto.limit = Absent THEN 10 ELSE parseInt(last.dto.limit)

\* The notifications of user u in the store.
Owned(u) == {i \in 1..Len(notifications) : notifications[i].recipientId = u}

Later(u, t) == {i \in Owned(u) : notifications[i].createdAt > t}

NotEarlier(u, t) == {i \in Owned(u) : notifications[i].createdAt >= t}

\* C17: getNotifications(userId, page, limit) returns notifications of
\* userId only, as they are stored, latest createdAt first, exactly those of
\* the page window (places (page - 1) * limit + 1 .. page * limit of the
\* descending list), and total and unreadCount count all and all unread
\* notifications of userId whatever page and limit are.
C17_OwnPageAndCounts ==
  Got =>
    LET data  == last.response.data
        shown == data.notifications
        u     == last.actor
        T     == Cardinality(Owned(u))
        skip  == (AskedPage - 1) * AskedLimit
        left  == IF T > skip THEN T - skip ELSE 0
    IN /\ \A i \in 1..Len(shown) :
            /\ shown[i].recipientId = u
            /\ shown[i]._id \in Owned(u)
            /\ shown[i] = [_id |-> shown[i]._id] @@ notifications[shown[i]._id]
            /\ Cardinality(Later(u, shown[i].createdAt)) <= skip + i - 1
            /\ Cardinality(NotEarlier(u, shown[i].createdAt)) >= skip + i
       /\ \A i, j \in 1..Len(shown) :
            i < j => /\ shown[i].createdAt >= shown[j].createdAt
                     /\ shown[i]._id # shown[j]._id
       /\ Len(shown) = IF left < AskedLimit THEN left ELSE AskedLimit
       /\ data.total = T
       /\ data.unreadCount =
            Cardinality({i \in Owned(u) : ~notifications[i].read})
       /\ data.page = AskedPage /\ data.limit = AskedLimit

C17_Witness ==
  /\ Got /\ AskedPage = 2 /\ AskedLimit = 1
  /\ Len(last.response.data.notifications) = 1
  /\ last.response.data.total = 2
  /\ last.response.data.unreadCount = 1
  /\ \E i \in 1..Len(notifications) : notifications[i].recipientId # last.actor

\* The pages 1..n of user u with limit L, one after the other; sorts[p] is
\* what the sort of the p-th call yields.
RECURSIVE PagesUpTo(_, _, _, _)
PagesUpTo(u, L, sorts, n) ==
  IF n = 0 THEN <<>>
  ELSE PagesUpTo(u, L, sorts, n - 1)
         \o getNotifications(u, n, L, sorts[n]).data.notifications

\* seq lists every notification of u once, latest first.
WholeListOf(u, seq) ==
  /\ Len(seq) = Cardinality(Owned(u))
  /\ {seq[i]._id : i \in 1..Len(seq)} = Owned(u)
  /\ \A i \in 1..(Len(seq) - 1) : seq[i].createdAt >= seq[i + 1].createdAt

\* totalPages = ceil(T / L)
IsCeiling(n, T, L) == n * L >= T /\ (n - 1) * L < T

\* C18: with the store unchanged between the calls, getNotifications reports
\* totalPages = ceil(T / L) for a recipient with T notifications, and its
\* pages 1..totalPages one after the other are the recipient's notifications
\* latest first, each exactly once.
C18_PagesCoverTheList ==
  Got =>
    LET u == last.actor
        n == last.response.data.totalPages
    IN /\ IsCeiling(n, Cardinality(Owned(u)), AskedLimit)
       /\ \A sorts \in [1..n -> Sorts(Mine(u))] :
            WholeListOf(u, PagesUpTo(u, AskedLimit, sorts, n))

\* No two notifications of u carry the same createdAt.
DistinctTimes(u) ==
  \A i, j \in Owned(u) :
    i # j => notifications[i].createdAt # notifications[j].createdAt

\* The part of C18 that holds: totalPages is the ceiling, and the pages cover
\* the list when the createdAt of the recipient's notifications differ.
C18_PagesCoverDistinctTimes ==
  Got =>
    LET u == last.actor
        n == last.response.data.totalPages
    IN /\ IsCeiling(n, Cardinality(Owned(u)), AskedLimit)
       /\ DistinctTimes(u) =>
            \A sorts \in [1..n -> Sorts(Mine(u))] :
              WholeListOf(u, PagesUpTo(u, AskedLimit, sorts, n))

C18_WitnessDistinctTimes ==
  /\ Got /\ DistinctTimes(last.actor)
  /\ last.response.data.totalPages = 2 /\ AskedLimit = 1

\* C19: GET /notifications with page < 1 or limit outside 1..100 is answered
\* 400 without data and without a change of the store, and with page >= 1,
\* limit in 1..100 and a well-formed user id it succeeds.
C19_PageAndLimitChecked ==
  last.op = "getNotifications" =>
    /\ AskedPage < 1 \/ AskedLimit < 1 \/ AskedLimit > 100 =>
         /\ last.status = 400
         /\ "data" \notin DOMAIN last.response
         /\ notifications = last.before
    /\ AskedPage >= 1 /\ AskedLimit \in 1..100 /\ isValidObjectId(last.actor)
         => last.status = 200

C19_Witness ==
  /\ last.op = "getNotifications" /\ last.status = 400
  /\ last.dto.limit = "101" /\ Owned(last.actor) # {}

C19_WitnessSuccess ==
  /\ Got /\ last.dto.limit = "100" /\ last.dto.page = "3"

\* C20: markNotificationAsRead of an id that names no notification is
\* answered 404, of a notification of another user 403, both without a change
\* of the store; no call changes a notification of another user.
C20_NotFoundAndForbidden ==
  last.op = "markNotificationAsRead" /\ isValidObjectId(last.actor)
    /\ isValidNotificationId(last.id) =>
    /\ last.id \notin 1..Len(last.before) =>
         last.status = 404 /\ notifications = last.before
    /\ last.id \in 1..Len(last.before) =>
         (last.before[last.id].recipientId # last.actor =>
            last.status = 403 /\ notifications = last.before)
    /\ Len(notifications) = Len(last.before)
    /\ \A i \in 1..Len(last.before) :
         last.before[i].recipientId # last.actor =>
           notifications[i] = last.before[i]

C20_Witness ==
  /\ last.op = "markNotificationAsRead" /\ last.status = 403
  /\ ~last.before[last.id].read /\ ~notifications[last.id].read

C20_WitnessNotFound ==
  /\ last.op = "markNotificationAsRead" /\ last.status = 404
  /\ Len(notifications) > 0

\* The last request was a PATCH /notifications/:id/read answered with success.
Marked == last.op = "markNotificationAsRead" /\ last.status = 200

\* C21: markNotificationAsRead by the recipient of a notification that is
\* read already writes nothing: the store is as before, the notification
\* returned has read = TRUE and the updatedAt it had; and a second call right
\* after a successful one returns what the first returned and changes nothing.
C21_MarkReadIdempotent ==
  /\ [](Marked /\ last.before[last.id].read =>
          /\ notifications = last.before
          /\ last.response.data.read = TRUE
          /\ last.response.data.updatedAt = last.before[last.id].updatedAt
          /\ last.response.data = formatNotification(last.before, last.id))
  /\ [][Marked /\ last'.op = "markNotificationAsRead" /\ last'.status = 200
          /\ last'.id = last.id =>
            /\ last'.response.data = last.response.data
            /\ notifications' = notifications]_vars

\* A read notification was marked again, at a later millisecond than its
\* last write.
C21_Witness ==
  /\ Marked /\ last.before[last.id].read
  /\ last.before[last.id].updatedAt > last.before[last.id].createdAt
  /\ \E i \in 1..Len(notifications) : ~notifications[i].read

\* The last request was a PATCH /notifications/read-all answered with success.
MarkedAll == last.op = "markAllNotificationsAsRead" /\ last.status = 200

\* The notifications that differ from what they were before the last request.
Changed == {i \in 1..Len(last.before) : notifications[i] # last.before[i]}

\* C22: markAllNotificationsAsRead(userId) sets read = TRUE on every unread
\* notification of userId and changes no other notification, its count is
\* the number of notifications it changed, and a second call right after it
\* returns count = 0.
C22_MarkAllOwnUnread ==
  /\ [](MarkedAll =>
          /\ Len(notifications) = Len(last.before)
          /\ \A i \in 1..Len(last.before) :
               IF last.before[i].recipientId = last.actor
                    /\ ~last.before[i].read
                 THEN /\ notifications[i].read
                      /\ [notifications[i] EXCEPT !.read = FALSE,
                             !.updatedAt = last.before[i].updatedAt]
                           = last.before[i]
                 ELSE notifications[i] = last.before[i]
          /\ last.response.data.count = Cardinality(Changed))
  /\ [][MarkedAll /\ last'.op = "markAllNotificationsAsRead"
          /\ last'.status = 200 /\ last'.actor = last.actor =>
            /\ last'.response.data.count = 0
            /\ notifications' = notifications]_vars

\* Some but not all notifications of the user were unread, and another user
\* has an unread one.
C22_Witness ==
  /\ MarkedAll /\ last.response.data.count >= 1
  /\ \E i \in 1..Len(last.before) :
       last.before[i].recipientId = last.actor /\ last.before[i].read
  /\ \E i \in 1..Len(notifications) :
       notifications[i].recipientId # last.actor /\ ~notifications[i].read

\* A call that finds nothing unread among the notifications of the user.
C22_WitnessSecondCall ==
  /\ MarkedAll /\ last.response.data.count = 0
  /\ Owned(last.actor) # {}

\* C23: a notification is created with read = FALSE, and whatever the order
\* and the interleaving of the steps of dispatches, markNotificationAsRead
\* and markAllNotificationsAsRead calls, no step takes the read flag of a
\* notification from TRUE to FALSE.
C23_ReadOnlyGoesTrue ==
  [][\A i \in 1..Len(notifications') :
       IF i <= Len(notifications)
         THEN notifications[i].read => notifications'[i].read
         ELSE ~notifications'[i].read]_vars

\* The issue_assigned notification has been inserted, unread, into a store
\* that holds read notifications.
C23_Witness ==
  /\ last.op = "createIssue" /\ last.step = "insert"
  /\ Len(notifications) >= 2
  /\ ~notifications[Len(notifications)].read
  /\ notifications[Len(notifications)].type = "issue_assigned"
  /\ \E i \in 1..Len(notifications) : notifications[i].read

\* A save of markNotificationAsRead that came after the updateMany of the
\* same user, or after the save of another request, left read = TRUE.
C23_WitnessMarkedTwice ==
  /\ last.op = "markNotificationAsRead" /\ last.step = "save"
  /\ notifications[last.id].read
  /\ notifications[last.id].updatedAt
       > notifications[last.id].createdAt + 1

\* What no request changes of a notification: all but read and updatedAt.
Content(n) == [n EXCEPT !.read = FALSE, !.updatedAt = 0]

\* C24: no step deletes a notification or changes the recipientId, title,
\* description, type, link (or createdAt) of one: the collection only grows,
\* and of a stored notification only read and updatedAt are written.
C24_ContentNeverChanges ==
  [][/\ Len(notifications') >= Len(notifications)
     /\ \A i \in 1..Len(notifications) :
          i <= Len(notifications') =>
            Content(notifications'[i]) = Content(notifications[i])]_vars

\* Every kind of write has happened: the inserts of a dispatch, an
\* updateMany, and a save as the last step.
C24_Witness ==
  /\ last.op = "markNotificationAsRead" /\ last.step = "save"
  /\ Len(notifications) = 3
  /\ \E i \in 1..Len(notifications) :
       /\ i # last.id /\ notifications[i].read
       /\ notifications[i].recipientId # last.actor
  /\ \E i \in 1..Len(notifications) : ~notifications[i].read

\* C25: no step writes a notification whose stored read flag is TRUE
\* already, so updatedAt changes only when read goes from FALSE to TRUE,
\* under every interleaving of markNotificationAsRead and
\* markAllNotificationsAsRead.
C25_NoWriteOfReadNotification ==
  [][\A i \in 1..Len(notifications) :
       notifications[i].read => notifications'[i] = notifications[i]]_vars

\* The part of C25 that holds: the updateMany never writes a notification
\* that is read, and a save writes a read one only if another request wrote
\* it after the findById of the saving request.
C25_OnlyOverlappingSavesRewrite ==
  [][\A i \in 1..Len(notifications) :
       notifications[i].read /\ notifications'[i] # notifications[i] =>
         /\ last'.op = "markNotificationAsRead" /\ last'.step = "save"
         /\ last'.id = i
         /\ \E slot \in Slots :
              /\ inflight[slot].op = "markNotificationAsRead"
              /\ inflight[slot].id = i
              /\ inflight'[slot] = Idle]_vars

\* The find of a GET /notifications was the last step, and the request was
\* answered.
Found == last.op = "getNotifications" /\ last.step = "find"

Least(a, b) == IF a < b THEN a ELSE b

\* C29: a getNotifications response is consistent in itself whatever steps
\* of dispatches and mark-read calls come between its store operations:
\* unreadCount <= total, and the number of notifications returned is at most
\* min(limit, total).
C29_ResponseConsistent ==
  Found =>
    LET data == last.response.data
    IN /\ data.unreadCount <= data.total
       /\ Len(data.notifications) <= Least(data.limit, data.total)

\* The part of C29 that holds: the page is never longer than limit, and
\* total, unreadCount and the page are bounded by the notifications the
\* recipient has when the request is answered.
C29_BoundedByStoreAtAnswer ==
  Found =>
    LET data == last.response.data
        T == Cardinality(Owned(last.actor))
    IN /\ data.total <= T
       /\ data.unreadCount <= T
       /\ Len(data.notifications) <= Least(data.limit, T)

\* The notifications of type t among the inserts of request r.
InsertsOfType(r, t) ==
  {r.inserts[k][1] : k \in {j \in 1..Len(r.inserts) :
                               r.inserts[j][1].type = t}}

\* The save of the updateIssue request in `slot` is the step taken.
Saves(slot) ==
  /\ inflight[slot].op = "updateIssue" /\ inflight[slot].step = "loaded"
  /\ inflight'[slot] # inflight[slot]
  /\ inflight'[slot] # Idle

\* C30: under every interleaving of updateIssue requests on one issue, a
\* status_changed (priority_changed) notification names as old value the
\* status (priority) the stored issue had immediately before the save of the
\* request that creates it.
C30_OldValueIsStoredValue ==
  [][\A slot \in Slots :
       Saves(slot) =>
         LET stored == issues[inflight[slot].id]
         IN /\ \A n \in InsertsOfType(inflight'[slot], "status_changed") :
                 n.description.from = stored.status
            /\ \A n \in InsertsOfType(inflight'[slot], "priority_changed") :
                 n.description.from = stored.priority]_vars

\* The part of C30 that holds: the old value is the one the request read
\* with its findById, the new value is the one its save stores, and the
\* two differ.
C30_OldValueIsLoadedValue ==
  [][\A slot \in Slots :
       Saves(slot) =>
         LET loaded == inflight[slot].loaded
             saved  == issues'[inflight[slot].id]
         IN /\ \A n \in InsertsOfType(inflight'[slot], "status_changed") :
                 /\ n.description.from = loaded.status
                 /\ n.description.to = saved.status
                 /\ n.description.from # n.description.to
            /\ \A n \in InsertsOfType(inflight'[slot], "priority_changed") :
                 /\ n.description.from = loaded.priority
                 /\ n.description.to = saved.priority
                 /\ n.description.from # n.description.to]_vars

\* The place of a notification in the order of the rules of its request:
\* createIssue evaluates the broadcast, then issue_assigned; updateIssue
\* status, then priority, then the assignment (and the general rule, which
\* excludes the others); createComment the mentions, then the creator of the
\* issue, then its assignee.
Rank(n) ==
  IF last.op = "createIssue"
    THEN IF n.type = "issue_created" THEN 1 ELSE 2
  ELSE IF last.op = "updateIssue"
    THEN IF n.type = "status_changed" THEN 1
         ELSE IF n.type = "priority_changed" THEN 2 ELSE 3
  ELSE IF n.type = "mentioned" THEN 1
       ELSE IF n.recipientId = Creator THEN 2 ELSE 3

\* The recipients of a sequence of notifications, in order.
RecipientSeq(seq) == [i \in 1..Len(seq) |-> seq[i].recipientId]

\* C26: the notifications of one request are in the store in the order in
\* which its rules are evaluated: those of an earlier rule before those of a
\* later one, and the mentioned notifications of a createComment in the
\* order of its mentions list.
C26_WrittenInRuleOrder ==
  /\ \A i, j \in 1..Len(Created) :
       i < j => Rank(Created[i]) <= Rank(Created[j])
  /\ Commented =>
       RecipientSeq(OfType("mentioned"))
         = SelectSeq(last.dto.mentions, LAMBDA u : u # last.actor)

\* An updateIssue whose three rules all fired.
C26_Witness ==
  /\ Updated
  /\ Len(OfType("status_changed")) > 0
  /\ Len(OfType("priority_changed")) > 0
  /\ Len(OfType("issue_assigned")) > 0

\* A createComment with two mentions that are not in the order of the User
\* collection.
C26_WitnessMentions ==
  /\ Commented
  /\ RecipientSeq(OfType("mentioned")) = <<"u3", "u2">>

\* A createComment with a mention and a comment_added, and one with a
\* comment_added for the creator and one for the assignee.
C26_WitnessComment ==
  /\ Commented
  /\ \/ Len(OfType("mentioned")) > 0 /\ Len(OfType("comment_added")) > 0
     \/ Len(OfType("comment_added")) = 2

\* A createIssue with the broadcast and an issue_assigned.
C26_WitnessCreate ==
  /\ IssueCreated
  /\ Len(OfType("issue_created")) > 0 /\ Len(OfType("issue_assigned")) > 0

\* C27: a createIssue, updateIssue or createComment that fails its
\* validation (issue not found; creator, assignee or mentioned user not
\* found; empty content; malformed id) returns the error and leaves users,
\* issues, comments and notifications as they were.
C27_FailedRequestWritesNothing ==
  [][last'.result # "ok" =>
       UNCHANGED <<users, issues, comments, notifications>>]_vars

\* An updateIssue that failed on its assignee after it had assigned a new
\* status to the document in memory: the stored issue has the old status.
C27_Witness ==
  /\ last.op = "updateIssue" /\ last.result = "Assignee user not found"
  /\ StatusDiffers
  /\ issues[last.id].status = last.old.status
  /\ Len(notifications) > 0

\* A createComment that failed on a mention, on its content, or on its issue.
C27_WitnessComment ==
  /\ last.op = "createComment" /\ Len(issues) > 0 /\ comments = <<>>
  /\ last.result \in {"Mentioned user not found",
                      "Invalid mention user ID format",
                      "Comment content is required", "Issue not found"}

\* A createIssue that failed on its creator or its assignee.
C27_WitnessCreate ==
  /\ last.op = "createIssue" /\ Len(issues) = 1
  /\ last.result \in {"Creator user not found", "Assignee user not found"}

\* The requests that run a dispatch.
Dispatching == {"createIssue", "updateIssue", "createComment"}

\* C28: only createIssue, updateIssue and createComment create
\* notifications: an updateComment, also one that sets new mentions, a
\* deleteComment and a listing of comments leave the Notification collection
\* as it is.
C28_OnlyDispatchesNotify ==
  [][/\ notifications' # notifications => last'.op \in Dispatching
     /\ last'.op \in {"updateComment", "deleteComment", "getCommentsByIssue"}
          => notifications' = notifications]_vars

\* An updateComment stored a mentions list naming a user the comment did not
\* mention before, who is not the author.
C28_Witness ==
  /\ last.op = "updateComment" /\ last.result = "ok"
  /\ "mentions" \in DOMAIN last.dto
  /\ \E i \in 1..Len(last.dto.mentions) :
       /\ last.dto.mentions[i] # last.actor
       /\ \A j \in 1..Len(last.old.mentions) :
            last.old.mentions[j] # last.dto.mentions[i]
  /\ comments[last.id].mentions = last.dto.mentions
  /\ Len(notifications) > 0

\* A deleteComment removed a comment whose creation had notified users.
C28_WitnessDelete ==
  /\ last.op = "deleteComment" /\ last.result = "ok"
  /\ comments[last.id] = Removed
  /\ \E i \in 1..Len(notifications) :
       notifications[i].type \in {"mentioned", "comment_added"}

====
